---------------------------- MODULE Spec2Model ----------------------------
(***************************************************************************)
(* A model of romt's mirror core (src/src/romt): the downloader's atomic   *)
(* fetch, the crate download batch, the pack/unpack archive engine, the    *)
(* crates-index delta calculator and the crate command pipeline.           *)
(*                                                                         *)
(* Each subsystem has its own variables and its own specification; the     *)
(* variables of the other subsystems stay at their idle values.            *)
(*                                                                         *)
(* Strings are sequences of tokens.  A letter is a one-character token, so *)
(* that case folding and prefix slicing are computed character by          *)
(* character; fixed words that the code only compares as a whole           *)
(* ("crates/", ".crate", "ARCHIVE_FORMAT", ...) are single tokens.         *)
(***************************************************************************)
EXTENDS Integers, Sequences, FiniteSets, TLC

VARIABLES
    \* ---- Downloader.adownload (one destination path) ----
    files,        \* path -> content (a sequence of chunks) or Absent
    fpc,          \* position of the running adownload call
    body,         \* what the URL of the running call serves
    failAt,       \* number of chunks after which the transfer fails (or NoFail)
    failKind,     \* what makes the transfer fail, or "none"
    ferror,       \* the exception that left the last adownload call, or "none"
    finished,     \* contents of the fetches that returned normally
    nFetch,       \* number of adownload calls started so far
    \* ---- pack / unpack (crate, toolchain, rustup) ----
    engine,       \* which romt engine runs: "crate", "toolchain" or "rustup"
    origin,       \* "pack": the archive is written by pack; "foreign": given
    crates_config,  \* config.toml of the packing crates root
    rcv_config,   \* config.toml of the unpacking crates root
    pack_keep_going,    \* --keep-going of the pack invocation
    unpack_keep_going,  \* --keep-going of the unpack invocation
    with_sig,     \* toolchain: whether .asc files are packed
    packList,     \* what pack is asked to pack
    sndDisk,      \* packing side: rel path -> content of the files present
    apc,          \* position of the pack / unpack run
    tarTmp,       \* the .tmp archive being written
    archive,      \* the archive at archive_path
    packIdx,      \* loop index of pack
    num_good_crates,
    num_bad_crates,
    uIdx,         \* loop index of unpack
    found_file,
    found_bundle,
    archive_prefix_style,
    rcvDisk,      \* unpacking side: rel path -> content
    bundleFile,   \* content at bundle_path, or Absent
    num_crates,
    aerror,       \* the exception that ended the run, or NoError
    \* ---- download (crate, toolchain, rustup) ----
    dl_engine,    \* which romt engine runs the download command
    dl_command,   \* "download" or "verify"
    dl_keep_going,  \* crate: --keep-going
    dl_assume_ok, \* --assume-ok
    cachedOf,     \* item -> the cached argument of its call
    dl_with_sig,  \* toolchain: signatures are fetched and verified
    warn_signature,  \* toolchain: --warn-signature
    num_jobs,     \* capacity of the limiter
    nItems,       \* number of artifacts of the command
    pathOf,       \* item -> its destination path (the first item naming it)
    specOf,       \* item -> the spec of the command line it belongs to
    dfile,        \* item -> content at its dest_path, or Absent
    dhash,        \* item -> content of its .sha256 sidecar, or Absent
    dsig,         \* item -> whether its .asc file exists
    tmps,         \* the .tmp files on disk: <<item, "dest" | "hash" | "sig">>
    tpc,          \* item -> position of the task that processes it
    tres,         \* item -> how its task ended: "ok" or the exception
    oplog,        \* item -> the hashings and requests of its task, in order
    held,         \* the items on whose behalf a limiter slot is held
    processed_paths,  \* toolchain: processed_paths of _download_verify
    dl_num_good,  \* crate: num_good_crates of _process_crates
    dl_num_bad,   \* crate: num_bad_crates of _process_crates
    written,      \* items whose dest_path this command wrote
    dl_result,    \* "running", "success", or the exception raised
    client_closed,  \* Downloader.close was called
    \* ---- crate range: START, filters and the delta ----
    cli_start,    \* --start as given (NoneStart when not given)
    args_start,   \* args.start
    allow_missing_start,  \* --allow-missing-start
    start_exists, \* whether the ref that START names resolves to a commit
    filter_strs,  \* the patterns given with --filter, in order
    blob_path,    \* path of the index blob looked at
    start_blob,   \* its lines in the tree of the START commit
    end_blob,     \* its lines in the tree of the END commit
    exact_map,    \* CrateFilter._exact_map
    pattern_map,  \* CrateFilter._pattern_map
    rpc,          \* position of the run
    crates_added,
    crates_removed,
    rerror,       \* the exception raised, or NoError
    \* ---- crate Main._run: the command loop ----
    args_commands,  \* args.commands, the COMMAND words of the command line
    end_valid,    \* whether END (--end) resolves to a commit
    args_end,     \* args.end: "HEAD" or a branch name
    args_prefix,  \* --prefix of init
    fs_case_insensitive,  \* the crates root is on a case-insensitive share
    args_keep_going,  \* args.keep_going (--keep-going)
    main_start,   \* args.start of the crate run: the branch that START names
    crates_cache, \* the commits _crates_added and _crates_removed were
                  \* calculated from, or NoCache
    config_toml,  \* prefix of CRATES_ROOT/config.toml, Absent, or NoDir
    index_dir,    \* whether the index directory exists
    commands,     \* the local list `commands` of _run
    executed,     \* the cmd_* calls made so far, in order, with their outcome
    head_ref,     \* name of the branch that HEAD refers to
    refs,         \* branch -> commit it points to, or Absent
    config_json,  \* config.json in the working tree of the index, or Absent
    head_config,  \* config.json in the commit at HEAD, or Absent
    mpc,          \* position of the run
    merror,       \* the exception that ended the run, or NoError
    \* crate prune
    pr_style,     \* prefix style of the crates root
    pr_removed,   \* get_crates_removed(): the removed crates, sorted
    pr_files0,    \* crate files below the crates root before the first prune
    pr_files,     \* crate files below the crates root
    pr_dirs,      \* directories below the crates root
    pr_idx,       \* position of the loop of cmd_prune in pr_removed
    pr_parts,     \* the local list `parts` of remove_empty_dirs
    pr_runs,      \* how many times prune was started
    ppc,          \* position of the prune run
    \* toolchain fixup
    tf_channel,   \* the channel of the manifests
    tf_with_sig,  \* --with-sig
    tf_dated,     \* dates d with dist/d/channel-rust-<channel>.toml on disk
    tf_top,       \* dist/channel-rust-<channel>.toml: the manifest it holds
    tf_top_hash,  \* its .sha256: the manifest it is the hash of
    tf_top_sig,   \* its .asc: the manifest it signs
    tf_versioned, \* channel-rust-<version>.toml files written, by directory
    tf_manifest,  \* date of the manifest of the last fixup
    tf_count,     \* number of specs that fixup has worked on
    tf_error,     \* the exception that ended the fixup
    tfpc,         \* position of the fixup run
    \* rustup fixup
    ru_archive,     \* versions v with artifacts below rustup/archive/v/
    ru_stable,      \* the version in rustup/release-stable.toml
    ru_dist,        \* the version whose archive rustup/dist/ is a copy of
    ru_version,     \* the local `version` of the last fixup of a SPEC
    ru_old_version, \* release-stable.toml as that fixup found it
    ru_wrote,       \* whether the last step wrote release-stable.toml
    ru_count,       \* number of specs that fixup has worked on
    ru_error,       \* the exception that ended the fixup
    rupc,           \* position of the fixup run
    \* a CrateFilter asked about one crate name
    flt_name,       \* the name given to name_matches, filter_crate_versions
    flt_versions,   \* the versions given to filter_crate_versions
    flt_matches,    \* what name_matches returned
    flt_selected,   \* what filter_crate_versions returned
    fltpc,          \* "idle", "ask" or "done"
    \* one call of a function of integrity.py, manifest.py, cli.py or crate.py
    call_args,      \* the arguments, a record
    call_result,    \* what the call returned or raised
    callpc          \* "idle", "call" or "done"

varsFetch == <<files, fpc, body, failAt, failKind, ferror, finished, nFetch>>

varsArchive ==
    <<engine, origin, crates_config, rcv_config, pack_keep_going,
      unpack_keep_going, with_sig, packList, sndDisk, apc, tarTmp, archive,
      packIdx,
      num_good_crates, num_bad_crates, uIdx, found_file, found_bundle,
      archive_prefix_style, rcvDisk, bundleFile, num_crates, aerror>>

varsDownload ==
    <<dl_engine, dl_command, dl_keep_going, dl_assume_ok, cachedOf,
      dl_with_sig, warn_signature, num_jobs, nItems, pathOf, specOf, dfile,
      dhash, dsig, tmps, tpc, tres, oplog, held, processed_paths, dl_num_good,
      dl_num_bad, written, dl_result, client_closed>>

varsRange ==
    <<cli_start, args_start, allow_missing_start, start_exists, filter_strs,
      blob_path, start_blob, end_blob, exact_map, pattern_map, rpc,
      crates_added, crates_removed, rerror>>

varsMain ==
    <<args_commands, end_valid, args_end, args_prefix, fs_case_insensitive,
      args_keep_going, main_start, crates_cache, config_toml, index_dir, commands, executed, head_ref, refs, config_json,
      head_config, mpc, merror>>

varsPrune ==
    <<pr_style, pr_removed, pr_files0, pr_files, pr_dirs, pr_idx, pr_parts,
      pr_runs, ppc>>

varsChannel ==
    <<tf_channel, tf_with_sig, tf_dated, tf_top, tf_top_hash, tf_top_sig,
      tf_versioned, tf_manifest, tf_count, tf_error, tfpc>>

varsRustup ==
    <<ru_archive, ru_stable, ru_dist, ru_version, ru_old_version, ru_wrote,
      ru_count, ru_error, rupc>>

varsFilter == <<flt_name, flt_versions, flt_matches, flt_selected, fltpc>>

varsCall == <<call_args, call_result, callpc>>

varsMirror == <<varsPrune, varsChannel, varsRustup, varsFilter, varsCall>>

vars ==
    <<varsFetch, varsArchive, varsDownload, varsRange, varsMain, varsMirror>>

OthersPrune ==
    <<varsFetch, varsArchive, varsDownload, varsRange, varsMain, varsChannel,
      varsRustup, varsFilter, varsCall>>

OthersChannel ==
    <<varsFetch, varsArchive, varsDownload, varsRange, varsMain, varsPrune,
      varsRustup, varsFilter, varsCall>>

OthersRustup ==
    <<varsFetch, varsArchive, varsDownload, varsRange, varsMain, varsPrune,
      varsChannel, varsFilter, varsCall>>

OthersFilter ==
    <<varsFetch, varsArchive, varsDownload, varsMain, varsPrune, varsChannel,
      varsRustup, varsCall>>

OthersCall ==
    <<varsFetch, varsArchive, varsDownload, varsRange, varsMain, varsPrune,
      varsChannel, varsRustup, varsFilter>>

Absent == "absent"
NoFail == -1

(***************************************************************************)
(* Bounds.                                                                 *)
(***************************************************************************)
MaxChunks == 2
MaxFetches == 2
MaxPack == 2       \* crates in the list given to pack
MaxMembers == 3    \* members of an archive that romt did not write
MaxItems == 2      \* crates of one download command
MaxFilters == 2    \* patterns given with --filter
MaxCommands == 2   \* COMMAND words on the command line

-----------------------------------------------------------------------------
(***************************************************************************)
(* Downloader.adownload: download.py 28-73, common.py 78-79.               *)
(***************************************************************************)
Chunks == {"x", "y"}

RECURSIVE SeqsUpTo(_, _)
SeqsUpTo(S, n) ==
    IF n = 0 THEN {<<>>}
    ELSE LET shorter == SeqsUpTo(S, n - 1)
         IN  shorter \cup {Append(s, e) : s \in shorter, e \in S}

Bodies == SeqsUpTo(Chunks, MaxChunks)

\* The destination of the modelled calls.
dest_path == [parent |-> "crates", name |-> <<"a-1", ".crate">>]

tmp_path_for_Direct(path) == path

\* common.tmp_path_for: path.with_name("." + path.name + ".tmp")
tmp_path_for(path) == [path EXCEPT !.name = <<".">> \o path.name \o <<".tmp">>]

FetchPaths == {dest_path, tmp_path_for(dest_path)}

is_file(path) == files[path] # Absent

InitFetch ==
    /\ files = [p \in FetchPaths |-> Absent]
    /\ fpc = "idle"
    /\ body = <<>>
    /\ failAt = NoFail
    /\ failKind = "none"
    /\ ferror = "none"
    /\ finished = {}
    /\ nFetch = 0

IdleFetch == InitFetch

OthersFetch ==
    <<varsArchive, varsDownload, varsRange, varsMain, varsMirror>>

\* What adownload_fileobj turns into DownloadError: httpx.HTTPError, raised
\* for a network or stream error ("network") and by raise_for_status for a
\* 4xx/5xx status ("status") (download.py 47-53), and FileNotFoundError of the
\* local file of a non-http URL ("notfound") (download.py 32-41).
DownloadErrorKinds == {"network", "status", "notfound"}

\* What it does not catch: another OSError of the copy of a local file
\* ("read"), and an OSError of fileobj.write ("write").
OSErrorKinds == {"read", "write"}

\* Whether a failure of kind `k` can come after `f` chunks: a bad status and
\* a missing local file are found before the first chunk.
KindAt(k, f) ==
    IF f = NoFail THEN k = "none"
    ELSE /\ k \in DownloadErrorKinds \cup OSErrorKinds
         /\ k \in {"status", "notfound"} => f = 0

\* A call of adownload(url, dest_path) begins; the URL will serve `b`, and the
\* transfer fails after `f` chunks with a failure of kind `k` (NoFail: it
\* succeeds).
adownload_call ==
    /\ fpc \in {"idle", "done", "failed", "raised", "interrupted"}
    /\ nFetch < MaxFetches
    /\ \E b \in Bodies, f \in {NoFail} \cup (0 .. MaxChunks),
          k \in {"none"} \cup DownloadErrorKinds \cup OSErrorKinds :
          /\ f <= Len(b)
          /\ KindAt(k, f)
          /\ body' = b
          /\ failAt' = f
          /\ failKind' = k
    /\ ferror' = "none"
    /\ nFetch' = nFetch + 1
    /\ fpc' = "unlink_dest"
    /\ UNCHANGED <<files, finished>>
    /\ UNCHANGED OthersFetch

\* download.py 69-70: if dest_path.is_file(): dest_path.unlink()
adownload_unlink_dest ==
    /\ fpc = "unlink_dest"
    /\ files' = [files EXCEPT ![dest_path] = Absent]
    /\ fpc' = "open_tmp"
    /\ UNCHANGED <<body, failAt, failKind, ferror, finished, nFetch>>
    /\ UNCHANGED OthersFetch

\* download.py 59-61: make_dirs_for; tmp_dest_path.open("wb") creates or
\* truncates the file.
adownload_open_tmp ==
    /\ fpc = "open_tmp"
    /\ files' = [files EXCEPT ![tmp_path_for(dest_path)] = <<>>]
    /\ fpc' = "write"
    /\ UNCHANGED <<body, failAt, failKind, ferror, finished, nFetch>>
    /\ UNCHANGED OthersFetch

\* download.py 50-51 / 39: the next chunk is written to the open file.
adownload_write_chunk ==
    /\ fpc = "write"
    /\ LET tmp == tmp_path_for(dest_path)
           n == Len(files[tmp])
       IN  /\ n < Len(body)
           /\ failAt # n
           /\ files' = [files EXCEPT ![tmp] = Append(files[tmp], body[n + 1])]
    /\ UNCHANGED <<fpc, body, failAt, failKind, ferror, finished, nFetch>>
    /\ UNCHANGED OthersFetch

\* download.py 52-53, 40-41, 63-66: DownloadError; the partial file is
\* unlinked and the error is raised again.
adownload_download_error ==
    /\ fpc = "write"
    /\ failKind \in DownloadErrorKinds
    /\ LET tmp == tmp_path_for(dest_path)
       IN  /\ failAt = Len(files[tmp])
           /\ files' = [files EXCEPT ![tmp] = Absent]
    /\ fpc' = "failed"
    /\ ferror' = "DownloadError"
    /\ UNCHANGED <<body, failAt, failKind, finished, nFetch>>
    /\ UNCHANGED OthersFetch

\* download.py 39, 51, 60-66: an OSError is not a DownloadError; it leaves
\* _adownload and adownload as it is, and nothing unlinks the .tmp file.
adownload_os_error ==
    /\ fpc = "write"
    /\ failKind \in OSErrorKinds
    /\ failAt = Len(files[tmp_path_for(dest_path)])
    /\ fpc' = "raised"
    /\ ferror' = "OSError"
    /\ UNCHANGED <<files, body, failAt, failKind, finished, nFetch>>
    /\ UNCHANGED OthersFetch

\* download.py 61-62: the transfer ended normally and the file is closed.
adownload_close_tmp ==
    /\ fpc = "write"
    /\ failAt \notin 0 .. Len(files[tmp_path_for(dest_path)])
    /\ Len(files[tmp_path_for(dest_path)]) = Len(body)
    /\ fpc' = "rename"
    /\ UNCHANGED <<files, body, failAt, failKind, ferror, finished, nFetch>>
    /\ UNCHANGED OthersFetch

\* download.py 73: tmp_dest_path.rename(dest_path)
adownload_rename ==
    /\ fpc = "rename"
    /\ LET tmp == tmp_path_for(dest_path)
       IN  files' = [p \in FetchPaths |->
                        IF p = dest_path THEN files[tmp]
                        ELSE IF p = tmp THEN Absent
                        ELSE files[p]]
    /\ finished' = finished \cup {body}
    /\ fpc' = "done"
    /\ UNCHANGED <<body, failAt, failKind, ferror, nFetch>>
    /\ UNCHANGED OthersFetch

\* The process is killed, or the task is cancelled, at any step: nothing is
\* cleaned up.
adownload_interrupt ==
    /\ fpc \in {"unlink_dest", "open_tmp", "write", "rename"}
    /\ fpc' = "interrupted"
    /\ UNCHANGED <<files, body, failAt, failKind, ferror, finished, nFetch>>
    /\ UNCHANGED OthersFetch

NextFetch ==
    \/ adownload_call
    \/ adownload_unlink_dest
    \/ adownload_open_tmp
    \/ adownload_write_chunk
    \/ adownload_download_error
    \/ adownload_os_error
    \/ adownload_close_tmp
    \/ adownload_rename
    \/ adownload_interrupt

-----------------------------------------------------------------------------
(***************************************************************************)
(* Strings: sequences of tokens.                                           *)
(***************************************************************************)
UpperLetters == {"A", "B", "C", "D"}

\* str.lower(), one character at a time.
LowerChar(c) ==
    CASE c = "A" -> "a"
      [] c = "B" -> "b"
      [] c = "C" -> "c"
      [] c = "D" -> "d"
      [] OTHER -> c

LowerStr(s) == [i \in 1 .. Len(s) |-> LowerChar(s[i])]

\* The code point order Python compares strings by, for the tokens sorted.
Code(t) ==
    CASE t = "0.1.0" -> 1
      [] t = "0.2.0" -> 2
      [] t = "A" -> 65
      [] t = "B" -> 66
      [] t = "C" -> 67
      [] t = "D" -> 68
      [] t = "a" -> 97
      [] t = "b" -> 98
      [] t = "c" -> 99
      [] t = "d" -> 100
      [] OTHER -> 0

RECURSIVE StrLess(_, _)
StrLess(s, t) ==
    IF t = <<>> THEN FALSE
    ELSE IF s = <<>> THEN TRUE
    ELSE IF Code(Head(s)) # Code(Head(t)) THEN Code(Head(s)) < Code(Head(t))
    ELSE StrLess(Tail(s), Tail(t))

StartsWith(s, prefix) ==
    /\ Len(s) >= Len(prefix)
    /\ SubSeq(s, 1, Len(prefix)) = prefix

EndsWith(s, suffix) ==
    /\ Len(s) >= Len(suffix)
    /\ SubSeq(s, Len(s) - Len(suffix) + 1, Len(s)) = suffix

\* s[n:]
DropFirst(s, n) == SubSeq(s, n + 1, Len(s))

\* str.split("/"): the segments between the "/" tokens.
RECURSIVE SplitSlash(_)
SplitSlash(s) ==
    LET cut == {i \in 1 .. Len(s) : s[i] = "/"}
    IN  IF cut = {} THEN <<s>>
        ELSE LET i == CHOOSE j \in cut : \A k \in cut : j <= k
             IN  <<SubSeq(s, 1, i - 1)>> \o SplitSlash(DropFirst(s, i))

Whitespace == {" ", "\n", "\t"}

\* str.strip()
RECURSIVE Strip(_)
Strip(s) ==
    IF s = <<>> THEN s
    ELSE IF Head(s) \in Whitespace THEN Strip(Tail(s))
    ELSE IF s[Len(s)] \in Whitespace THEN Strip(SubSeq(s, 1, Len(s) - 1))
    ELSE s

-----------------------------------------------------------------------------
(***************************************************************************)
(* Crate paths: crate.py 84-216.                                           *)
(***************************************************************************)
LOWER == "lower"
MIXED == "mixed"
PrefixStyle == {LOWER, MIXED}

\* crate.py 105-108
crates_config_prefix_style(config) ==
    IF config.prefix = "mixed" THEN MIXED ELSE LOWER

\* crate.py 111-116
crates_config_archive_prefix_style(config) ==
    IF config.archive_prefix = "mixed" THEN MIXED ELSE LOWER

crate_prefix_from_name_NoFold(name, prefix_style) ==
    IF Len(name) = 1 THEN <<"1">>
    ELSE IF Len(name) = 2 THEN <<"2">>
    ELSE IF Len(name) = 3 THEN <<"3", "/", name[1]>>
    ELSE SubSeq(name, 1, 2) \o <<"/">> \o SubSeq(name, 3, 4)

\* crate.py 192-203
crate_prefix_from_name(name, prefix_style) ==
    LET prefix ==
            IF Len(name) = 1 THEN <<"1">>
            ELSE IF Len(name) = 2 THEN <<"2">>
            ELSE IF Len(name) = 3 THEN <<"3", "/", name[1]>>
            ELSE SubSeq(name, 1, 2) \o <<"/">> \o SubSeq(name, 3, 4)
    IN  IF prefix_style = LOWER THEN LowerStr(prefix) ELSE prefix

\* crate.py 206-207
crate_basename_from_name_version(name, version) ==
    name \o <<"-">> \o version \o <<".crate">>

\* crate.py 210-215 (and Path.as_posix)
crate_rel_path_from_name_version(name, version, prefix_style) ==
    crate_prefix_from_name(name, prefix_style) \o <<"/">> \o name \o <<"/">>
        \o crate_basename_from_name_version(name, version)

NoNameVersion == [name |-> <<>>, version |-> <<>>]

\* crate.py 175-189: the path must end in /<name>/<name>-<version>.crate
crate_name_version_from_rel_path(rel_path) ==
    LET segs == SplitSlash(rel_path)
        n == Len(segs)
    IN  IF n < 3 THEN NoNameVersion
        ELSE LET name == segs[n - 1]
                 file == segs[n]
                 head == name \o <<"-">>
             IN  IF /\ name # <<>>
                    /\ StartsWith(file, head)
                    /\ EndsWith(file, <<".crate">>)
                    /\ Len(file) > Len(head) + 1
                 THEN [name |-> name,
                       version |-> SubSeq(file, Len(head) + 1, Len(file) - 1)]
                 ELSE NoNameVersion

-----------------------------------------------------------------------------
(***************************************************************************)
(* Archives: common.tar_context (common.py 195-224), crate.pack and        *)
(* crate.unpack (crate.py 715-846), Main.cmd_pack (crate.py 1362-1380).    *)
(*                                                                         *)
(* An archive is the sequence of its tar members, in stream order.         *)
(***************************************************************************)
NoError == "none"

\* Map f with key k set to v.
Put(f, k, v) == [x \in DOMAIN f \cup {k} |-> IF x = k THEN v ELSE f[x]]

EmptyDisk == [x \in {} |-> <<>>]

\* A tar file: absent, or the members written to it so far.
NoTar == [exists |-> FALSE, members |-> <<>>]
Tar(members) == [exists |-> TRUE, members |-> members]
TarAdd(tar_f, member) == Tar(Append(tar_f.members, member))

Member(name, payload) == [name |-> name, isdir |-> FALSE, payload |-> payload]
DirMember(name) == [name |-> name, isdir |-> TRUE, payload |-> <<>>]

ARCHIVE_FORMAT == <<"ARCHIVE_FORMAT">>

\* crate.py 37-51
INDEX_BUNDLE_PACKED_NAME == <<"git", "/", "crates.io-index", "/", "origin.bundle">>

crates_prefix == <<"crates", "/">>

BundleBytes == <<"bundle-bytes">>

\* The crates of the model: names of length 1, 2, 3 and 4, in mixed case, and
\* two names that differ in case only.
CrateNames ==
    { <<"a">>, <<"A", "b">>, <<"A", "b", "C">>, <<"A", "b", "C", "d">>,
      <<"a", "b", "c", "d">> }

Crates ==
    {[name |-> n, version |-> <<"0.1.0">>] : n \in CrateNames}
        \cup {[name |-> <<"a">>, version |-> <<"0.2.0">>]}

Contents == {<<"p">>, <<"q">>}

\* Crate.ident order: (name, version) tuples of strings.
IdentLess(c, d) ==
    \/ StrLess(c.name, d.name)
    \/ c.name = d.name /\ StrLess(c.version, d.version)

\* sorted(crates, key=lambda crate: crate.ident)
RECURSIVE SortedCrates(_)
SortedCrates(S) ==
    IF S = {} THEN <<>>
    ELSE LET least == CHOOSE c \in S : \A d \in S \ {c} : IdentLess(c, d)
         IN  <<least>> \o SortedCrates(S \ {least})

SeqToSet(q) == {q[i] : i \in 1 .. Len(q)}

\* crate.py 730-732
archive_format_for_Fixed(style) == <<"1", "\n">>

archive_format_for(style) ==
    IF style = LOWER THEN <<"2", "\n">> ELSE <<"1", "\n">>

CrateConfigs == [prefix : {"lower", "mixed"}, archive_prefix : {"lower", "mixed"}]

\* crate.py 127-128
default_crates_config_Lower == [prefix |-> "lower", archive_prefix |-> "lower"]

default_crates_config == [prefix |-> "lower", archive_prefix |-> "mixed"]

\* crate.py 95-99
to_config_str(style) == IF style = LOWER THEN "lower" ELSE "mixed"

\* crate.py 1105-1111: the default of --prefix, through from_config_str
default_prefix_style == LOWER

\* crate.py 925-928: the config.toml that init writes
init_crates_config(prefix_style) ==
    [default_crates_config EXCEPT !.prefix = to_config_str(prefix_style)]

\* Subsets of S with at most n elements.
SubsetsUpTo(S, n) == {T \in SUBSET S : Cardinality(T) <= n}

\* The disks on which each crate of T is missing or present with some content.
DisksFor(T, style) ==
    LET PathOf(c) == crate_rel_path_from_name_version(c.name, c.version, style)
    IN  UNION { { [q \in {PathOf(c) : c \in P} |->
                      ch[CHOOSE c \in P : PathOf(c) = q]] : ch \in [P -> Contents] }
                : P \in SUBSET T }

\* Members an archive written by something else than romt may hold.
ForeignMembers ==
    { Member(ARCHIVE_FORMAT, <<"1", "\n">>),
      Member(ARCHIVE_FORMAT, <<"2", "\n">>),
      Member(ARCHIVE_FORMAT, <<"3", "\n">>),
      Member(INDEX_BUNDLE_PACKED_NAME, BundleBytes),
      Member(crates_prefix \o crate_rel_path_from_name_version(
                 <<"A", "b", "C", "d">>, <<"0.1.0">>, MIXED), <<"p">>),
      Member(crates_prefix \o crate_rel_path_from_name_version(
                 <<"A", "b", "C", "d">>, <<"0.1.0">>, LOWER), <<"q">>),
      Member(crates_prefix \o <<"A", "b", "C", "d", "-", "0.1.0", ".crate">>,
             <<"p">>),
      Member(<<"README">>, <<"p">>),
      DirMember(<<"crates">>) }

ArchiveIdleFields ==
    /\ apc = "idle"
    /\ tarTmp = NoTar
    /\ packIdx = 0
    /\ num_good_crates = 0
    /\ num_bad_crates = 0
    /\ uIdx = 0
    /\ found_file = FALSE
    /\ found_bundle = FALSE
    /\ archive_prefix_style = MIXED
    /\ rcvDisk = EmptyDisk
    /\ bundleFile = Absent
    /\ num_crates = 0
    /\ aerror = NoError

\* A crates root with some crates on disk and a list to pack, and a fresh
\* crates root to unpack into.
InitCratePack ==
    /\ engine = "crate"
    /\ origin = "pack"
    /\ crates_config \in CrateConfigs
    /\ rcv_config \in CrateConfigs
    /\ rcv_config.archive_prefix = "mixed"
    /\ pack_keep_going \in BOOLEAN
    /\ unpack_keep_going \in BOOLEAN
    /\ with_sig = FALSE
    /\ \E T \in SubsetsUpTo(Crates, MaxPack) :
          /\ packList = SortedCrates(T)
          /\ sndDisk \in DisksFor(T, crates_config_prefix_style(crates_config))
    /\ archive = NoTar
    /\ ArchiveIdleFields

\* An archive from elsewhere, and a fresh crates root to unpack into.
InitCrateForeign ==
    /\ engine = "crate"
    /\ origin = "foreign"
    /\ crates_config = [prefix |-> "lower", archive_prefix |-> "mixed"]
    /\ rcv_config \in CrateConfigs
    /\ rcv_config.archive_prefix = "mixed"
    /\ pack_keep_going = FALSE
    /\ unpack_keep_going \in BOOLEAN
    /\ with_sig = FALSE
    /\ packList = <<>>
    /\ sndDisk = EmptyDisk
    /\ archive \in {Tar(m) : m \in SeqsUpTo(ForeignMembers, MaxMembers)}
    /\ ArchiveIdleFields

IdleArchive ==
    /\ engine = "crate"
    /\ origin = "pack"
    /\ crates_config = [prefix |-> "lower", archive_prefix |-> "mixed"]
    /\ rcv_config = [prefix |-> "lower", archive_prefix |-> "mixed"]
    /\ pack_keep_going = FALSE
    /\ unpack_keep_going = FALSE
    /\ with_sig = FALSE
    /\ packList = <<>>
    /\ sndDisk = EmptyDisk
    /\ archive = NoTar
    /\ ArchiveIdleFields

OthersArchive ==
    <<varsFetch, varsDownload, varsRange, varsMain, varsMirror>>

ArchiveInputs ==
    <<engine, origin, crates_config, rcv_config, pack_keep_going,
      unpack_keep_going, with_sig, packList, sndDisk>>

UnpackState ==
    <<uIdx, found_file, found_bundle, archive_prefix_style, rcvDisk,
      bundleFile, num_crates>>

\* crate.py 1362-1364, 1379-1380: no crates in the range, nothing is packed.
cmd_pack_no_crates ==
    /\ engine = "crate" /\ origin = "pack" /\ apc = "idle"
    /\ packList = <<>>
    /\ apc' = "no_crates"
    /\ UNCHANGED <<ArchiveInputs, tarTmp, archive, packIdx, num_good_crates,
                   num_bad_crates, UnpackState, aerror>>
    /\ UNCHANGED OthersArchive

\* crate.py 1364-1378, 722-729, common.py 204-208: the bundle is created,
\* an existing archive is unlinked and the .tmp archive is opened.
cmd_pack_open ==
    /\ engine = "crate" /\ origin = "pack" /\ apc = "idle"
    /\ packList # <<>>
    /\ archive' = NoTar
    /\ tarTmp' = Tar(<<>>)
    /\ num_good_crates' = 0
    /\ num_bad_crates' = 0
    /\ apc' = "pack_format"
    /\ UNCHANGED <<ArchiveInputs, packIdx, UnpackState, aerror>>
    /\ UNCHANGED OthersArchive

\* crate.py 730-736
pack_add_format ==
    /\ engine = "crate" /\ apc = "pack_format"
    /\ tarTmp' = TarAdd(tarTmp,
           Member(ARCHIVE_FORMAT,
                  archive_format_for(
                      crates_config_archive_prefix_style(crates_config))))
    /\ apc' = "pack_bundle"
    /\ UNCHANGED <<ArchiveInputs, archive, packIdx, num_good_crates,
                   num_bad_crates, UnpackState, aerror>>
    /\ UNCHANGED OthersArchive

\* crate.py 738-741
pack_add_bundle ==
    /\ engine = "crate" /\ apc = "pack_bundle"
    /\ tarTmp' = TarAdd(tarTmp, Member(INDEX_BUNDLE_PACKED_NAME, BundleBytes))
    /\ packIdx' = 1
    /\ apc' = "pack_crates"
    /\ UNCHANGED <<ArchiveInputs, archive, num_good_crates, num_bad_crates,
                   UnpackState, aerror>>
    /\ UNCHANGED OthersArchive

\* crate.py 743-755, common.py 211-215: one crate of the sorted list is added;
\* a missing file is counted and, without keep_going, aborts the pack, which
\* removes the .tmp archive.
pack_add_crate ==
    /\ engine = "crate" /\ apc = "pack_crates"
    /\ packIdx <= Len(packList)
    /\ LET crate == packList[packIdx]
           prefix_style == crates_config_prefix_style(crates_config)
           archive_style == crates_config_archive_prefix_style(crates_config)
           path == crate_rel_path_from_name_version(
                       crate.name, crate.version, prefix_style)
           packed_name == crates_prefix \o
               crate_rel_path_from_name_version(
                   crate.name, crate.version, archive_style)
       IN  IF path \in DOMAIN sndDisk
           THEN /\ tarTmp' = TarAdd(tarTmp, Member(packed_name, sndDisk[path]))
                /\ num_good_crates' = num_good_crates + 1
                /\ packIdx' = packIdx + 1
                /\ UNCHANGED <<num_bad_crates, apc, aerror>>
           ELSE /\ num_bad_crates' = num_bad_crates + 1
                /\ IF pack_keep_going
                   THEN /\ packIdx' = packIdx + 1
                        /\ UNCHANGED <<tarTmp, apc, aerror>>
                   ELSE /\ tarTmp' = NoTar
                        /\ apc' = "pack_failed"
                        /\ aerror' = "AbortError"
                        /\ UNCHANGED packIdx
                /\ UNCHANGED num_good_crates
    /\ UNCHANGED <<ArchiveInputs, archive, UnpackState>>
    /\ UNCHANGED OthersArchive

\* common.py 216-217: the archive is closed and renamed into place.
pack_close ==
    /\ engine = "crate" /\ apc = "pack_crates"
    /\ packIdx > Len(packList)
    /\ archive' = tarTmp
    /\ tarTmp' = NoTar
    /\ apc' = "packed"
    /\ UNCHANGED <<ArchiveInputs, packIdx, num_good_crates, num_bad_crates,
                   UnpackState, aerror>>
    /\ UNCHANGED OthersArchive

\* crate.py 1313-1321, 769-778: unpack opens the archive.
cmd_unpack_open ==
    /\ engine = "crate"
    /\ \/ origin = "pack" /\ apc = "packed"
       \/ origin = "foreign" /\ apc = "idle"
    /\ archive.exists
    /\ uIdx' = 1
    /\ num_crates' = 0
    /\ found_bundle' = FALSE
    /\ found_file' = FALSE
    /\ archive_prefix_style' = MIXED
    /\ apc' = "unpack"
    /\ UNCHANGED <<ArchiveInputs, tarTmp, archive, packIdx, num_good_crates,
                   num_bad_crates, rcvDisk, bundleFile, aerror>>
    /\ UNCHANGED OthersArchive

UnpackAbort ==
    /\ apc' = "unpack_failed"
    /\ aerror' = "AbortError"
    /\ UNCHANGED <<uIdx, found_bundle, archive_prefix_style, rcvDisk,
                   bundleFile, num_crates>>

unpack_archive_format_Anywhere(tar_info) ==
    LET archive_format == Strip(tar_info.payload)
    IN  /\ found_file' = TRUE
        /\ IF archive_format \in {<<"1">>, <<"2">>}
           THEN /\ archive_prefix_style' =
                       (IF archive_format = <<"1">> THEN MIXED ELSE LOWER)
                /\ uIdx' = uIdx + 1
                /\ UNCHANGED <<found_bundle, rcvDisk, bundleFile,
                               num_crates, apc, aerror>>
           ELSE UnpackAbort

\* crate.py 782-800
unpack_archive_format(tar_info) ==
    IF found_file
    THEN UnpackAbort /\ UNCHANGED found_file
    ELSE LET archive_format == Strip(tar_info.payload)
         IN  /\ found_file' = TRUE
             /\ IF archive_format \in {<<"1">>, <<"2">>}
                THEN /\ archive_prefix_style' =
                            (IF archive_format = <<"1">> THEN MIXED ELSE LOWER)
                     /\ uIdx' = uIdx + 1
                     /\ UNCHANGED <<found_bundle, rcvDisk, bundleFile,
                                    num_crates, apc, aerror>>
                ELSE UnpackAbort

\* crate.py 802-816
unpack_bundle(tar_info) ==
    /\ found_file' = TRUE
    /\ found_bundle' = TRUE
    /\ bundleFile' = tar_info.payload
    /\ uIdx' = uIdx + 1
    /\ UNCHANGED <<archive_prefix_style, rcvDisk, num_crates, apc, aerror>>

\* The name and version, or nothing, that the check of crate.py 820-830 lets
\* through for a crates/ member.
unpack_crate_checked_Unchecked(member_name, style) ==
    crate_name_version_from_rel_path(member_name)

unpack_crate_checked(member_name, style) ==
    LET nv == crate_name_version_from_rel_path(member_name)
    IN  IF nv.name = <<>> \/ nv.version = <<>> THEN NoNameVersion
        ELSE IF DropFirst(member_name, Len(crates_prefix)) #
                    crate_rel_path_from_name_version(nv.name, nv.version, style)
        THEN NoNameVersion
        ELSE nv

\* crate.py 832-835: where the member is extracted under the crates root.
unpack_crate_dest_Archive(nv, style, archive_style) ==
    crate_rel_path_from_name_version(nv.name, nv.version, archive_style)

unpack_crate_dest(nv, style, archive_style) ==
    crate_rel_path_from_name_version(nv.name, nv.version, style)

\* crate.py 818-838
unpack_crate(tar_info) ==
    LET nv == unpack_crate_checked(tar_info.name, archive_prefix_style)
    IN  /\ found_file' = TRUE
        /\ IF nv = NoNameVersion
           THEN UnpackAbort
           ELSE /\ rcvDisk' = Put(rcvDisk,
                        unpack_crate_dest(nv,
                            crates_config_prefix_style(rcv_config),
                            archive_prefix_style),
                        tar_info.payload)
                /\ num_crates' = num_crates + 1
                /\ uIdx' = uIdx + 1
                /\ UNCHANGED <<found_bundle, archive_prefix_style, bundleFile,
                               apc, aerror>>

\* crate.py 840-841: keep_going is not consulted.
unpack_unexpected(tar_info) ==
    UnpackAbort /\ UNCHANGED found_file

\* crate.py 779-841: the next member of the archive.
unpack_member ==
    /\ engine = "crate" /\ apc = "unpack"
    /\ uIdx <= Len(archive.members)
    /\ LET tar_info == archive.members[uIdx]
       IN  IF tar_info.isdir
           THEN /\ uIdx' = uIdx + 1
                /\ UNCHANGED <<found_file, found_bundle, archive_prefix_style,
                               rcvDisk, bundleFile, num_crates, apc, aerror>>
           ELSE IF tar_info.name = ARCHIVE_FORMAT
           THEN unpack_archive_format(tar_info)
           ELSE IF tar_info.name = INDEX_BUNDLE_PACKED_NAME
           THEN unpack_bundle(tar_info)
           ELSE IF StartsWith(tar_info.name, crates_prefix)
           THEN unpack_crate(tar_info)
           ELSE unpack_unexpected(tar_info)
    /\ UNCHANGED <<ArchiveInputs, tarTmp, archive, packIdx, num_good_crates,
                   num_bad_crates>>
    /\ UNCHANGED OthersArchive

\* crate.py 843-846
unpack_end ==
    /\ engine = "crate" /\ apc = "unpack"
    /\ uIdx > Len(archive.members)
    /\ IF found_bundle
       THEN apc' = "unpacked" /\ UNCHANGED aerror
       ELSE apc' = "unpack_failed" /\ aerror' = "AbortError"
    /\ UNCHANGED <<ArchiveInputs, tarTmp, archive, packIdx, num_good_crates,
                   num_bad_crates, UnpackState>>
    /\ UNCHANGED OthersArchive

-----------------------------------------------------------------------------
(***************************************************************************)
(* Toolchain and rustup archives: toolchain.py 539-591 and 624-641,        *)
(* rustup.py 354-385 and 405-423.                                          *)
(***************************************************************************)
DistEngines == {"toolchain", "rustup"}

\* toolchain.py 549, rustup.py 362
pack_prefix(e) == IF e = "toolchain" THEN <<"dist", "/">> ELSE <<"rustup", "/">>

\* toolchain.py 627, rustup.py 408-409
unpack_prefix_Short(e) == pack_prefix(e)

unpack_prefix(e) ==
    IF e = "toolchain" THEN <<"dist", "/">>
    ELSE <<"rustup", "/", "archive", "/">>

\* integrity.py 64-65
append_hash_suffix(rel_path) == rel_path \o <<".sha256">>

append_sig_suffix(rel_path) == rel_path \o <<".asc">>

DistSpecs(e) ==
    IF e = "toolchain" THEN {"stable-2024-01-01", "beta-2024-01-01"}
    ELSE {"1.0.0", "1.1.0"}

\* The artifacts a spec names, in packing order: toolchain.py 572-591 (the
\* channel file, then the packages; both channels ship the same rust-src),
\* rustup.py 375-385 (rustup-init of every target).
spec_rel_paths(e, spec) ==
    IF e = "toolchain"
    THEN << <<"2024-01-01", "/", "channel-rust-",
              (IF spec = "stable-2024-01-01" THEN "stable" ELSE "beta"),
              ".toml">>,
            <<"2024-01-01", "/", "rust-src.tar.xz">> >>
    ELSE << <<"archive", "/", spec, "/", "x86_64-unknown-linux-gnu", "/",
              "rustup-init">> >>

\* toolchain.py 557-561, rustup.py 369-371
pack_rel_path_NoHash(e, sig, rel_path) == <<rel_path>>

pack_rel_path(e, sig, rel_path) ==
    <<rel_path, append_hash_suffix(rel_path)>>
        \o (IF e = "toolchain" /\ sig THEN <<append_sig_suffix(rel_path)>>
            ELSE <<>>)

RECURSIVE Flatten(_)
Flatten(qq) == IF qq = <<>> THEN <<>> ELSE Head(qq) \o Flatten(Tail(qq))

\* The calls of pack_path that cmd_pack makes for the given specs.
pack_path_calls(e, sig, specs) ==
    Flatten([i \in 1 .. Len(specs) |->
        LET rels == spec_rel_paths(e, specs[i])
        IN  Flatten([j \in 1 .. Len(rels) |-> pack_rel_path(e, sig, rels[j])])])

\* toolchain.py 371-379; rustup packs without this check.
path_duplicated(e, list, idx) ==
    /\ e = "toolchain"
    /\ \E j \in 1 .. idx - 1 : list[j] = list[idx]

DistContent(rel_path) == <<"content-of">> \o rel_path

\* Every file to pack is on disk, but for at most one.
DistDisksFor(list) ==
    LET all == SeqToSet(list)
    IN  { [q \in all \ miss |-> DistContent(q)] :
            miss \in {{}} \cup {{m} : m \in all} }

DistForeignMembers ==
    { Member(<<"dist", "/", "2024-01-01", "/", "rust-src.tar.xz">>, <<"p">>),
      Member(<<"rustup", "/", "archive", "/", "1.0.0", "/",
               "x86_64-unknown-linux-gnu", "/", "rustup-init">>, <<"p">>),
      Member(<<"rustup", "/", "README">>, <<"p">>),
      Member(ARCHIVE_FORMAT, <<"1", "\n">>),
      DirMember(<<"dist">>) }

InitDistPack ==
    /\ engine \in DistEngines
    /\ origin = "pack"
    /\ crates_config = [prefix |-> "lower", archive_prefix |-> "mixed"]
    /\ rcv_config = [prefix |-> "lower", archive_prefix |-> "mixed"]
    /\ pack_keep_going = FALSE
    /\ unpack_keep_going = FALSE
    /\ with_sig \in (IF engine = "toolchain" THEN BOOLEAN ELSE {FALSE})
    /\ \E specs \in SeqsUpTo(DistSpecs(engine), MaxPack) :
          packList = pack_path_calls(engine, with_sig, specs)
    /\ sndDisk \in DistDisksFor(packList)
    /\ archive = NoTar
    /\ ArchiveIdleFields

InitDistForeign ==
    /\ engine \in DistEngines
    /\ origin = "foreign"
    /\ crates_config = [prefix |-> "lower", archive_prefix |-> "mixed"]
    /\ rcv_config = [prefix |-> "lower", archive_prefix |-> "mixed"]
    /\ pack_keep_going = FALSE
    /\ unpack_keep_going = FALSE
    /\ with_sig = FALSE
    /\ packList = <<>>
    /\ sndDisk = EmptyDisk
    /\ archive \in {Tar(m) : m \in SeqsUpTo(DistForeignMembers, MaxMembers)}
    /\ ArchiveIdleFields

\* toolchain.py 540-543, rustup.py 355-358, common.py 204-208
dist_cmd_pack_open ==
    /\ engine \in DistEngines /\ origin = "pack" /\ apc = "idle"
    /\ archive' = NoTar
    /\ tarTmp' = Tar(<<>>)
    /\ packIdx' = 1
    /\ apc' = "pack_paths"
    /\ UNCHANGED <<ArchiveInputs, num_good_crates, num_bad_crates,
                   UnpackState, aerror>>
    /\ UNCHANGED OthersArchive

\* toolchain.py 546-555, rustup.py 360-367, common.py 211-215
dist_pack_path ==
    /\ engine \in DistEngines /\ apc = "pack_paths"
    /\ packIdx <= Len(packList)
    /\ LET rel_path == packList[packIdx]
           packed_name == pack_prefix(engine) \o rel_path
       IN  IF path_duplicated(engine, packList, packIdx)
           THEN /\ packIdx' = packIdx + 1
                /\ UNCHANGED <<tarTmp, apc, aerror>>
           ELSE IF rel_path \in DOMAIN sndDisk
           THEN /\ tarTmp' = TarAdd(tarTmp,
                                    Member(packed_name, sndDisk[rel_path]))
                /\ packIdx' = packIdx + 1
                /\ UNCHANGED <<apc, aerror>>
           ELSE /\ tarTmp' = NoTar
                /\ apc' = "pack_failed"
                /\ aerror' = "MissingFileError"
                /\ UNCHANGED packIdx
    /\ UNCHANGED <<ArchiveInputs, archive, num_good_crates, num_bad_crates,
                   UnpackState>>
    /\ UNCHANGED OthersArchive

\* common.py 216-217
dist_pack_close ==
    /\ engine \in DistEngines /\ apc = "pack_paths"
    /\ packIdx > Len(packList)
    /\ archive' = tarTmp
    /\ tarTmp' = NoTar
    /\ apc' = "packed"
    /\ UNCHANGED <<ArchiveInputs, packIdx, num_good_crates, num_bad_crates,
                   UnpackState, aerror>>
    /\ UNCHANGED OthersArchive

\* toolchain.py 625-629, rustup.py 406-411
dist_cmd_unpack_open ==
    /\ engine \in DistEngines
    /\ \/ origin = "pack" /\ apc = "packed"
       \/ origin = "foreign" /\ apc = "idle"
    /\ archive.exists
    /\ uIdx' = 1
    /\ apc' = "unpack"
    /\ UNCHANGED <<ArchiveInputs, tarTmp, archive, packIdx, num_good_crates,
                   num_bad_crates, found_file, found_bundle,
                   archive_prefix_style, rcvDisk, bundleFile, num_crates,
                   aerror>>
    /\ UNCHANGED OthersArchive

\* toolchain.py 630-641, rustup.py 412-423: the next member of the archive.
dist_unpack_member ==
    /\ engine \in DistEngines /\ apc = "unpack"
    /\ uIdx <= Len(archive.members)
    /\ LET tar_info == archive.members[uIdx]
       IN  IF tar_info.isdir
           THEN /\ uIdx' = uIdx + 1
                /\ UNCHANGED <<rcvDisk, apc, aerror>>
           ELSE IF ~StartsWith(tar_info.name, unpack_prefix(engine))
           THEN /\ apc' = "unpack_failed"
                /\ aerror' = "UnexpectedArchiveMemberError"
                /\ UNCHANGED <<uIdx, rcvDisk>>
           ELSE /\ rcvDisk' = Put(rcvDisk,
                        DropFirst(tar_info.name, Len(pack_prefix(engine))),
                        tar_info.payload)
                /\ uIdx' = uIdx + 1
                /\ UNCHANGED <<apc, aerror>>
    /\ UNCHANGED <<ArchiveInputs, tarTmp, archive, packIdx, num_good_crates,
                   num_bad_crates, found_file, found_bundle,
                   archive_prefix_style, bundleFile, num_crates>>
    /\ UNCHANGED OthersArchive

\* toolchain.py 630, 643-672, rustup.py 412, 425-436: the archive is exhausted.
dist_unpack_end ==
    /\ engine \in DistEngines /\ apc = "unpack"
    /\ uIdx > Len(archive.members)
    /\ apc' = "unpacked"
    /\ UNCHANGED <<ArchiveInputs, tarTmp, archive, packIdx, num_good_crates,
                   num_bad_crates, UnpackState, aerror>>
    /\ UNCHANGED OthersArchive

InitArchive ==
    InitCratePack \/ InitCrateForeign \/ InitDistPack \/ InitDistForeign

NextArchive ==
    \/ cmd_pack_no_crates
    \/ cmd_pack_open
    \/ pack_add_format
    \/ pack_add_bundle
    \/ pack_add_crate
    \/ pack_close
    \/ cmd_unpack_open
    \/ unpack_member
    \/ unpack_end
    \/ dist_cmd_pack_open
    \/ dist_pack_path
    \/ dist_pack_close
    \/ dist_cmd_unpack_open
    \/ dist_unpack_member
    \/ dist_unpack_end

-----------------------------------------------------------------------------
(***************************************************************************)
(* Download and verify commands: download.py 92-214, integrity.py 79-107,  *)
(* crate.py 565-659, toolchain.py 351-403 and 431-474, rustup.py 291-315,  *)
(* base.py 29-54.                                                          *)
(*                                                                         *)
(* A file content is "p" or "q"; Sha256 gives its digest.  What a URL      *)
(* serves is chosen when the transfer completes.  An item is one crate of  *)
(* the crate list, or one artifact (manifest or package) of a toolchain or *)
(* rustup command; the disk is indexed by the item that first names a      *)
(* destination path.                                                       *)
(***************************************************************************)
FileContents == {"p", "q"}

\* integrity.py 13-33
Sha256(content) == IF content = "p" THEN "hp" ELSE "hq"

\* Hash texts that parse_hash_text accepts, and one that it does not.
HashTexts == {"hp", "hq"}
Malformed == "malformed"

\* The cksum of every crate in the index.
crate_hash == "hp"

\* integrity.py 79-92
verify_hash_Exists(content, expected_hash) ==
    IF content = Absent THEN "MissingFileError" ELSE "ok"

verify_hash(content, expected_hash) ==
    IF content = Absent THEN "MissingFileError"
    ELSE IF Sha256(content) # expected_hash THEN "IntegrityError"
    ELSE "ok"

\* integrity.py 95-107, 35-58
verify_Unchecked(content, hash_text) ==
    IF hash_text = Absent \/ content = Absent THEN "MissingFileError"
    ELSE "ok"

verify(content, hash_text) ==
    IF hash_text = Absent THEN "MissingFileError"
    ELSE IF hash_text \notin HashTexts THEN "ValueError"
    ELSE verify_hash(content, hash_text)

\* signature.Verifier.verify as download.py 92-95 and error.py 41-44 use it:
\* a missing .asc file is a MissingFileError, a signature that does not
\* match is an IntegrityError.
sig_verifier_verify(sig_exists, sig_ok) ==
    IF ~sig_exists THEN "MissingFileError"
    ELSE IF ~sig_ok THEN "IntegrityError"
    ELSE "ok"

\* download.py 92-99: a failure is only a warning under --warn-signature.
sig_verify_Strict(sig_exists, sig_ok) == sig_verifier_verify(sig_exists, sig_ok)

sig_verify(sig_exists, sig_ok) ==
    IF sig_verifier_verify(sig_exists, sig_ok) # "ok" /\ warn_signature
    THEN "ok"
    ELSE sig_verifier_verify(sig_exists, sig_ok)

\* What the verifier may answer for the .asc file on disk.
SigAnswers(sig_exists) == IF sig_exists THEN BOOLEAN ELSE {FALSE}

DistBatchSizes == {1, 2}
JobCounts == {1, 2}

\* --jobs as given on the command line.
ArgsNumJobs == {0, 1, 2}

\* base.py 32
downloader_num_jobs_Raw(n) == n

downloader_num_jobs(n) == IF n > 1 THEN n ELSE 1

\* Positions of a task at an await of a transfer, and of a task that has been
\* started and has not finished.
InFlight == {"fetch", "hash_fetch", "sig_fetch", "dest_fetch"}
Running == {"start", "fetch", "hash_fetch", "sig_fetch", "dest_fetch"}
Finished == {"done", "raised", "cancelled", "duplicate"}

\* The exceptions that _process_one catches (crate.py 610-615).
CaughtErrors == {"DownloadError", "MissingFileError", "IntegrityError"}

\* What the end of a transfer can be, besides the bytes served: the
\* DownloadError of download.py 40-41 and 52-53, or an OSError of the copy or
\* of the write to the .tmp file, which nothing catches.
TransferErrors == {"DownloadError", "OSError"}

DownloadIdleFields ==
    /\ tpc = [i \in 1 .. nItems |-> "new"]
    /\ tres = [i \in 1 .. nItems |-> "none"]
    /\ oplog = [i \in 1 .. nItems |-> <<>>]
    /\ tmps = {}
    /\ held = {}
    /\ processed_paths = {}
    /\ dl_num_good = 0
    /\ dl_num_bad = 0
    /\ written = {}
    /\ dl_result = "running"
    /\ client_closed = FALSE

InitCrateDownload ==
    /\ dl_engine = "crate"
    /\ dl_command \in {"download", "verify"}
    /\ dl_keep_going \in BOOLEAN
    /\ dl_assume_ok \in BOOLEAN
    /\ nItems \in 1 .. MaxItems
    /\ cachedOf = [i \in 1 .. nItems |-> TRUE]
    /\ dl_with_sig = FALSE
    /\ warn_signature = FALSE
    /\ num_jobs \in {downloader_num_jobs(n) : n \in ArgsNumJobs}
    /\ pathOf = [i \in 1 .. nItems |-> i]
    /\ specOf = [i \in 1 .. nItems |-> 1]
    /\ dfile \in [1 .. nItems -> FileContents \cup {Absent}]
    /\ dhash = [i \in 1 .. nItems |-> Absent]
    /\ dsig = [i \in 1 .. nItems |-> FALSE]
    /\ DownloadIdleFields

\* toolchain.py 439-474: the packages of the specs of one command, in the
\* order they are processed; two packages may have the same destination
\* path, in one spec or in two.  rustup.py 306-315: one file per target.
\* Only the first artifact, the manifest, may be fetched with cached = False
\* (toolchain.py 229-241); verify reads neither cached nor assume_ok.
InitDistDownload ==
    /\ dl_engine \in {"toolchain", "rustup"}
    /\ dl_command \in {"download", "verify"}
    /\ dl_keep_going = FALSE
    /\ dl_assume_ok \in (IF dl_command = "download" THEN BOOLEAN ELSE {FALSE})
    /\ nItems \in DistBatchSizes
    /\ cachedOf \in {f \in [1 .. nItems -> BOOLEAN] :
                        /\ dl_command = "verify" => f[1]
                        /\ \A i \in 2 .. nItems : f[i]}
    /\ dl_with_sig \in (IF dl_engine = "toolchain" THEN BOOLEAN ELSE {FALSE})
    /\ warn_signature \in (IF dl_with_sig THEN BOOLEAN ELSE {FALSE})
    /\ num_jobs \in (IF dl_engine = "toolchain"
                     THEN {downloader_num_jobs(n) : n \in ArgsNumJobs}
                     ELSE {1})
    /\ pathOf \in {f \in [1 .. nItems -> 1 .. nItems] :
                      /\ f[1] = 1
                      /\ dl_engine = "rustup" => \A i \in 1 .. nItems : f[i] = i}
    /\ specOf \in {f \in [1 .. nItems -> 1 .. nItems] :
                      /\ f[1] = 1
                      /\ \A i \in 1 .. nItems - 1 : f[i] <= f[i + 1]
                      /\ dl_engine = "rustup" => \A i \in 1 .. nItems : f[i] = 1}
    /\ dfile \in [1 .. nItems -> FileContents \cup {Absent}]
    /\ dhash \in [1 .. nItems -> {"hp", Malformed, Absent}]
    /\ dsig \in [1 .. nItems -> (IF dl_with_sig THEN BOOLEAN ELSE {FALSE})]
    /\ \A i \in 1 .. nItems :
          /\ dfile[i] = dfile[pathOf[i]]
          /\ dhash[i] = dhash[pathOf[i]]
          /\ dsig[i] = dsig[pathOf[i]]
    /\ DownloadIdleFields

InitDownload == InitCrateDownload \/ InitDistDownload

IdleDownload ==
    /\ dl_engine = "crate"
    /\ dl_command = "download"
    /\ dl_keep_going = FALSE
    /\ dl_assume_ok = FALSE
    /\ nItems = 0
    /\ cachedOf = <<>>
    /\ dl_with_sig = FALSE
    /\ warn_signature = FALSE
    /\ num_jobs = 1
    /\ pathOf = <<>>
    /\ specOf = <<>>
    /\ dfile = <<>>
    /\ dhash = <<>>
    /\ dsig = <<>>
    /\ tpc = <<>>
    /\ tres = <<>>
    /\ oplog = <<>>
    /\ tmps = {}
    /\ held = {}
    /\ processed_paths = {}
    /\ dl_num_good = 0
    /\ dl_num_bad = 0
    /\ written = {}
    /\ dl_result = "running"
    /\ client_closed = FALSE

OthersDownload ==
    <<varsFetch, varsArchive, varsRange, varsMain, varsMirror>>

DownloadInputs ==
    <<dl_engine, dl_command, dl_keep_going, dl_assume_ok, cachedOf,
      dl_with_sig, warn_signature, num_jobs, nItems, pathOf, specOf>>

\* The operations of a task are appended to its log.
Logged(i, ops) == [oplog EXCEPT ![i] = oplog[i] \o ops]

\* crate.py 609-638: the outcome of one crate is logged and counted, and the
\* slot of the limiter is released.
process_one_done_Uncounted(i, result) ==
    /\ tpc' = [tpc EXCEPT ![i] = "done"]
    /\ tres' = [tres EXCEPT ![i] = result]
    /\ dl_num_good' = dl_num_good + 1
    /\ held' = held \ {i}
    /\ UNCHANGED <<dl_result, dl_num_bad>>

process_one_done(i, result) ==
    /\ tpc' = [tpc EXCEPT ![i] = "done"]
    /\ tres' = [tres EXCEPT ![i] = result]
    /\ dl_num_good' = dl_num_good + (IF result = "ok" THEN 1 ELSE 0)
    /\ dl_num_bad' = dl_num_bad + (IF result = "ok" THEN 0 ELSE 1)
    /\ held' = held \ {i}
    /\ UNCHANGED dl_result

\* toolchain.py 358-369, rustup.py 311-315: the call returns; finally
\* releases the slot.
task_done(i) ==
    /\ tpc' = [tpc EXCEPT ![i] = "done"]
    /\ tres' = [tres EXCEPT ![i] = "ok"]
    /\ held' = held \ {i}
    /\ UNCHANGED <<dl_result, dl_num_good, dl_num_bad>>

\* The tasks that a cancellation of the nursery reaches at once: those that
\* wait at an await.
CancelledBy(i) == {j \in (1 .. nItems) \ {i} : tpc[j] \in InFlight}

\* toolchain.py 368-369 releases in finally; crate.py 638 releases on the
\* normal path of _process_one only.
released_on_exception(tasks) == IF dl_engine = "crate" THEN {} ELSE tasks

\* An exception leaves the task; the nursery cancels the other tasks and the
\* command ends with the exception (crate.py 640-649, toolchain.py 386-402,
\* rustup.py 311-313).
task_raises(i, exception) ==
    /\ tpc' = [j \in 1 .. nItems |->
                 IF j = i THEN "raised"
                 ELSE IF j \in CancelledBy(i) THEN "cancelled"
                 ELSE tpc[j]]
    /\ tres' = [j \in 1 .. nItems |->
                 IF j = i THEN exception
                 ELSE IF j \in CancelledBy(i) THEN "Cancelled"
                 ELSE tres[j]]
    /\ held' = held \ released_on_exception({i} \cup CancelledBy(i))
    /\ dl_result' = IF dl_result = "running" THEN exception ELSE dl_result
    /\ UNCHANGED <<dl_num_good, dl_num_bad>>

\* A task that was started before the nursery was cancelled runs up to its
\* first await and is cancelled there.
task_awaits(i, position) ==
    IF dl_result = "running"
    THEN /\ tpc' = [tpc EXCEPT ![i] = position]
         /\ UNCHANGED <<tres, held, dl_result, dl_num_good, dl_num_bad>>
    ELSE /\ tpc' = [tpc EXCEPT ![i] = "cancelled"]
         /\ tres' = [tres EXCEPT ![i] = "Cancelled"]
         /\ held' = held \ released_on_exception({i})
         /\ UNCHANGED <<dl_result, dl_num_good, dl_num_bad>>

\* toolchain.py 371-379
download_path_duplicated_Never(path, processed) == FALSE

download_path_duplicated(path, processed) == path \in processed

\* The loop over the packages of a spec starts when the batch of the spec
\* before it has returned (toolchain.py 440-474).
EarlierSpecsReturned(i) ==
    \A j \in 1 .. i - 1 : specOf[j] < specOf[i] => tpc[j] \in Finished

NextItem(i) ==
    /\ dl_result = "running"
    /\ tpc[i] = "new"
    /\ \A j \in 1 .. i - 1 : tpc[j] # "new"
    /\ EarlierSpecsReturned(i)

\* download.py 239-240, crate.py 643, toolchain.py 396: acquire_on_behalf_of
\* returns when fewer than num_jobs slots of the CapacityLimiter are borrowed.
limiter_has_slot_Always(borrowers, total_tokens) == TRUE

limiter_has_slot(borrowers, total_tokens) ==
    Cardinality(borrowers) < total_tokens

\* crate.py 642-647, toolchain.py 389-402: the limiter is acquired for the
\* next item, in list order, and its task is started.  rustup.py 306-315
\* processes one file after the other, without a limiter.
start_soon ==
    \E i \in 1 .. nItems :
    /\ NextItem(i)
    /\ dl_engine = "toolchain"
          => ~download_path_duplicated(pathOf[i], processed_paths)
    /\ IF dl_engine = "rustup"
       THEN /\ \A j \in 1 .. nItems : tpc[j] \notin Running
            /\ UNCHANGED held
       ELSE /\ limiter_has_slot(held, num_jobs)
            /\ held' = held \cup {i}
    /\ processed_paths' = IF dl_engine = "toolchain"
                          THEN processed_paths \cup {pathOf[i]}
                          ELSE processed_paths
    /\ tpc' = [tpc EXCEPT ![i] = "start"]
    /\ UNCHANGED <<DownloadInputs, dfile, dhash, dsig, tmps, tres, oplog,
                   dl_num_good, dl_num_bad, written, dl_result, client_closed>>
    /\ UNCHANGED OthersDownload

\* toolchain.py 392-394: a package whose path was processed is skipped.
skip_duplicate ==
    \E i \in 1 .. nItems :
    /\ NextItem(i)
    /\ dl_engine = "toolchain"
    /\ download_path_duplicated(pathOf[i], processed_paths)
    /\ tpc' = [tpc EXCEPT ![i] = "duplicate"]
    /\ UNCHANGED <<DownloadInputs, dfile, dhash, dsig, tmps, tres, oplog, held,
                   processed_paths, dl_num_good, dl_num_bad, written,
                   dl_result, client_closed>>
    /\ UNCHANGED OthersDownload

\* crate.py 596-598, download.py 101-108: crate verify; _process_one has no
\* await on this path.
crate_verify_hash ==
    \E i \in 1 .. nItems :
    /\ dl_engine = "crate" /\ dl_command = "verify"
    /\ tpc[i] = "start"
    /\ process_one_done(i, verify_hash(dfile[i], crate_hash))
    /\ oplog' = Logged(i, <<"hash">>)
    /\ UNCHANGED <<DownloadInputs, dfile, dhash, dsig, tmps, processed_paths,
                   written, client_closed>>
    /\ UNCHANGED OthersDownload

\* download.py 132-135: [assuming OK] is inside `if cached:`.
assuming_ok_Never(cached, assume_ok, dest_is_file) == FALSE

assuming_ok(cached, assume_ok, dest_is_file) ==
    cached /\ assume_ok /\ dest_is_file

\* crate.py 588-609, download.py 132-142, 69-72, 59-61: _process_one up to
\* the first await of adownload: dest_path is unlinked and the .tmp file is
\* opened.
adownload_verify_hash_begin ==
    \E i \in 1 .. nItems :
    /\ dl_engine = "crate" /\ dl_command = "download"
    /\ tpc[i] = "start"
    /\ IF assuming_ok(cachedOf[i], dl_assume_ok, dfile[i] # Absent)
       THEN /\ process_one_done(i, "ok")
            /\ UNCHANGED <<dfile, tmps, oplog>>
       ELSE IF cachedOf[i] /\ verify_hash(dfile[i], crate_hash) = "ok"
       THEN /\ process_one_done(i, "ok")
            /\ oplog' = Logged(i, <<"hash">>)
            /\ UNCHANGED <<dfile, tmps>>
       ELSE /\ dfile' = [dfile EXCEPT ![i] = Absent]
            /\ tmps' = tmps \cup {<<i, "dest">>}
            /\ oplog' = Logged(i, IF cachedOf[i] THEN <<"hash", "GET dest">>
                                  ELSE <<"GET dest">>)
            /\ task_awaits(i, "fetch")
    /\ UNCHANGED <<DownloadInputs, dhash, dsig, processed_paths, written,
                   client_closed>>
    /\ UNCHANGED OthersDownload

\* download.py 58-66, 71-73, 143-144, crate.py 610-637: the transfer ends.
\* On DownloadError the .tmp file is unlinked; otherwise it is renamed into
\* place and the file is verified.
adownload_verify_hash_end ==
    \E i \in 1 .. nItems :
    /\ dl_engine = "crate"
    /\ tpc[i] = "fetch"
    /\ \E served \in FileContents \cup TransferErrors :
          IF served = "DownloadError"
          THEN /\ process_one_done(i, "DownloadError")
               /\ tmps' = tmps \ {<<i, "dest">>}
               /\ UNCHANGED <<dfile, written, oplog>>
          ELSE IF served = "OSError"
          THEN /\ task_raises(i, "OSError")
               /\ UNCHANGED <<dfile, written, oplog, tmps>>
          ELSE /\ dfile' = [dfile EXCEPT ![i] = served]
               /\ tmps' = tmps \ {<<i, "dest">>}
               /\ written' = written \cup {i}
               /\ oplog' = Logged(i, <<"hash">>)
               /\ process_one_done(i, verify_hash(served, crate_hash))
    /\ UNCHANGED <<DownloadInputs, dhash, dsig, processed_paths,
                   client_closed>>
    /\ UNCHANGED OthersDownload

\* crate.py 649-659
process_crates_end ==
    /\ dl_engine = "crate" /\ dl_result = "running"
    /\ nItems > 0
    /\ \A i \in 1 .. nItems : tpc[i] = "done"
    /\ dl_result' = IF dl_num_bad > 0 /\ ~dl_keep_going THEN "AbortError"
                    ELSE "success"
    /\ UNCHANGED <<DownloadInputs, dfile, dhash, dsig, tmps, tpc, tres, oplog,
                   held, processed_paths, dl_num_good, dl_num_bad, written,
                   client_closed>>
    /\ UNCHANGED OthersDownload

\* download.py 213-214, 119-121: the signature is verified when with_sig.
\* The operations `ops` and the answer of the verifier are logged.
SigLog(sig_exists, sig_ok) ==
    IF ~dl_with_sig THEN <<>>
    ELSE IF sig_verifier_verify(sig_exists, sig_ok) = "ok" THEN <<"sig">>
    ELSE IF sig_verifier_verify(sig_exists, sig_ok) = "IntegrityError"
    THEN <<"sig failed">>
    ELSE <<"sig missing">>

sig_verify_then_done(i, sig_exists, ops) ==
    \E sig_ok \in SigAnswers(sig_exists) :
       /\ oplog' = Logged(i, ops \o SigLog(sig_exists, sig_ok))
       /\ LET s == IF dl_with_sig THEN sig_verify(sig_exists, sig_ok)
                   ELSE "ok"
          IN  IF s = "ok" THEN task_done(i) ELSE task_raises(i, s)

\* toolchain.py 366-367, rustup.py 314-315, download.py 110-121: verify of
\* one file; the call has no await.
dist_verify ==
    \E i \in 1 .. nItems :
    /\ dl_engine # "crate" /\ dl_command = "verify"
    /\ tpc[i] = "start"
    /\ LET v == verify(dfile[i], dhash[i])
       IN  IF v # "ok"
           THEN task_raises(i, v) /\ oplog' = Logged(i, <<"hash">>)
           ELSE sig_verify_then_done(i, dsig[i], <<"hash">>)
    /\ UNCHANGED <<DownloadInputs, dfile, dhash, dsig, tmps, processed_paths,
                   written, client_closed>>
    /\ UNCHANGED OthersDownload

\* download.py 200-214, 69-72, 59-61: the file on disk is kept when it
\* matches the fetched digest; otherwise it is unlinked and fetched.  `t` and
\* `ops` are the .tmp files and the operations of the step that calls this.
download_required_check_Always(i, hash_text, sig_exists, t, ops) ==
    /\ dfile' = [dfile EXCEPT ![i] = Absent]
    /\ tmps' = t \cup {<<i, "dest">>}
    /\ oplog' = Logged(i, ops \o <<"GET dest">>)
    /\ tpc' = [tpc EXCEPT ![i] = "dest_fetch"]
    /\ UNCHANGED <<tres, held, dl_result, dl_num_good, dl_num_bad>>

download_required_check(i, hash_text, sig_exists, t, ops) ==
    LET v == verify(dfile[i], hash_text)
    IN  IF dfile[i] # Absent /\ v = "ok"
        THEN /\ sig_verify_then_done(i, sig_exists, ops \o <<"hash">>)
             /\ tmps' = t
             /\ UNCHANGED dfile
        ELSE IF dfile[i] # Absent /\ v = "ValueError"
        THEN /\ task_raises(i, "ValueError")
             /\ oplog' = Logged(i, ops \o <<"hash">>)
             /\ tmps' = t
             /\ UNCHANGED dfile
        ELSE /\ dfile' = [dfile EXCEPT ![i] = Absent]
             /\ tmps' = t \cup {<<i, "dest">>}
             /\ oplog' = Logged(i, ops \o (IF dfile[i] # Absent
                                           THEN <<"hash", "GET dest">>
                                           ELSE <<"GET dest">>))
             /\ tpc' = [tpc EXCEPT ![i] = "dest_fetch"]
             /\ UNCHANGED <<tres, held, dl_result, dl_num_good, dl_num_bad>>

\* download.py 164-195, 69-72, 59-61: adownload_verify up to the first await:
\* the cached checks, then the .sha256 file is unlinked and its .tmp opened.
adownload_verify_begin ==
    \E i \in 1 .. nItems :
    /\ dl_engine # "crate" /\ dl_command = "download"
    /\ tpc[i] = "start"
    /\ \E sig_ok \in SigAnswers(dsig[i]) :
          LET v == verify(dfile[i], dhash[i])
              assumed == /\ cachedOf[i] /\ dl_assume_ok
                         /\ dfile[i] # Absent /\ dhash[i] # Absent
                         /\ (~dl_with_sig \/ dsig[i])
              check == IF ~cachedOf[i] THEN "not cached"
                       ELSE IF v # "ok" THEN v
                       ELSE IF dl_with_sig THEN sig_verify(dsig[i], sig_ok)
                       ELSE "ok"
              checkOps == IF ~cachedOf[i] THEN <<>>
                          ELSE IF v # "ok" THEN <<"hash">>
                          ELSE <<"hash">> \o SigLog(dsig[i], sig_ok)
          IN  IF assumed
              THEN task_done(i) /\ UNCHANGED <<dhash, tmps, oplog>>
              ELSE IF check = "ok"
              THEN /\ task_done(i)
                   /\ oplog' = Logged(i, checkOps)
                   /\ UNCHANGED <<dhash, tmps>>
              ELSE IF check = "ValueError"
              THEN /\ task_raises(i, "ValueError")
                   /\ oplog' = Logged(i, checkOps)
                   /\ UNCHANGED <<dhash, tmps>>
              ELSE /\ dhash' = [dhash EXCEPT ![i] = Absent]
                   /\ tmps' = tmps \cup {<<i, "hash">>}
                   /\ oplog' = Logged(i, checkOps \o <<"GET hash">>)
                   /\ task_awaits(i, "hash_fetch")
    /\ UNCHANGED <<DownloadInputs, dfile, dsig, processed_paths, written,
                   client_closed>>
    /\ UNCHANGED OthersDownload

\* download.py 195-211: the .sha256 transfer ends.
adownload_verify_hash_fetched ==
    \E i \in 1 .. nItems :
    /\ dl_engine # "crate"
    /\ tpc[i] = "hash_fetch"
    /\ \E served \in HashTexts \cup {Malformed} \cup TransferErrors :
          IF served \in TransferErrors
          THEN /\ task_raises(i, served)
               /\ tmps' = IF served = "DownloadError"
                          THEN tmps \ {<<i, "hash">>} ELSE tmps
               /\ UNCHANGED <<dfile, dhash, dsig, oplog>>
          ELSE /\ dhash' = [dhash EXCEPT ![i] = served]
               /\ IF dl_with_sig
                  THEN /\ dsig' = [dsig EXCEPT ![i] = FALSE]
                       /\ tmps' = (tmps \ {<<i, "hash">>}) \cup {<<i, "sig">>}
                       /\ oplog' = Logged(i, <<"GET sig">>)
                       /\ tpc' = [tpc EXCEPT ![i] = "sig_fetch"]
                       /\ UNCHANGED <<dfile, tres, held, dl_result,
                                      dl_num_good, dl_num_bad>>
                  ELSE /\ download_required_check(i, served, dsig[i],
                                                  tmps \ {<<i, "hash">>}, <<>>)
                       /\ UNCHANGED dsig
    /\ UNCHANGED <<DownloadInputs, processed_paths, written, client_closed>>
    /\ UNCHANGED OthersDownload

\* download.py 196-211: the .asc transfer ends.
adownload_verify_sig_fetched ==
    \E i \in 1 .. nItems :
    /\ dl_engine # "crate"
    /\ tpc[i] = "sig_fetch"
    /\ \E served \in {"sig"} \cup TransferErrors :
          IF served \in TransferErrors
          THEN /\ task_raises(i, served)
               /\ tmps' = IF served = "DownloadError"
                          THEN tmps \ {<<i, "sig">>} ELSE tmps
               /\ UNCHANGED <<dfile, dsig, oplog>>
          ELSE /\ dsig' = [dsig EXCEPT ![i] = TRUE]
               /\ download_required_check(i, dhash[i], TRUE,
                                          tmps \ {<<i, "sig">>}, <<>>)
    /\ UNCHANGED <<DownloadInputs, dhash, processed_paths, written,
                   client_closed>>
    /\ UNCHANGED OthersDownload

\* download.py 209-214: the transfer of the file itself ends; it is renamed
\* into place and verified against the sidecar.
adownload_verify_dest_fetched ==
    \E i \in 1 .. nItems :
    /\ dl_engine # "crate"
    /\ tpc[i] = "dest_fetch"
    /\ \E served \in FileContents \cup TransferErrors :
          IF served \in TransferErrors
          THEN /\ task_raises(i, served)
               /\ tmps' = IF served = "DownloadError"
                          THEN tmps \ {<<i, "dest">>} ELSE tmps
               /\ UNCHANGED <<dfile, written, oplog>>
          ELSE /\ dfile' = [dfile EXCEPT ![i] = served]
               /\ tmps' = tmps \ {<<i, "dest">>}
               /\ written' = written \cup {i}
               /\ LET v == verify(served, dhash[i])
                  IN  IF v = "ok"
                      THEN sig_verify_then_done(i, dsig[i], <<"hash">>)
                      ELSE /\ task_raises(i, v)
                           /\ oplog' = Logged(i, <<"hash">>)
    /\ UNCHANGED <<DownloadInputs, dhash, dsig, processed_paths,
                   client_closed>>
    /\ UNCHANGED OthersDownload

\* toolchain.py 440-474, rustup.py 294-315: every file was processed.
download_verify_end ==
    /\ dl_engine # "crate" /\ dl_result = "running"
    /\ \A i \in 1 .. nItems : tpc[i] \in {"done", "duplicate"}
    /\ dl_result' = "success"
    /\ UNCHANGED <<DownloadInputs, dfile, dhash, dsig, tmps, tpc, tres, oplog,
                   held, processed_paths, dl_num_good, dl_num_bad, written,
                   client_closed>>
    /\ UNCHANGED OthersDownload

\* Ctrl-C while the batch runs: trio raises KeyboardInterrupt in the main
\* task and cancels the tasks of the nursery; the tasks that wait at an await
\* leave there with Cancelled.
keyboard_interrupt ==
    /\ dl_result = "running"
    /\ \E i \in 1 .. nItems : tpc[i] \in Running
    /\ tpc' = [j \in 1 .. nItems |->
                 IF tpc[j] \in InFlight THEN "cancelled" ELSE tpc[j]]
    /\ tres' = [j \in 1 .. nItems |->
                 IF tpc[j] \in InFlight THEN "Cancelled" ELSE tres[j]]
    /\ held' = held \ released_on_exception(
                          {j \in 1 .. nItems : tpc[j] \in InFlight})
    /\ dl_result' = "KeyboardInterrupt"
    /\ UNCHANGED <<DownloadInputs, dfile, dhash, dsig, tmps, oplog,
                   processed_paths, dl_num_good, dl_num_bad, written,
                   client_closed>>
    /\ UNCHANGED OthersDownload

\* base.py 48-54: when _run has returned or raised, the downloader is closed.
run_finally ==
    /\ dl_result # "running"
    /\ \A i \in 1 .. nItems : tpc[i] \notin Running
    /\ ~client_closed
    /\ client_closed' = TRUE
    /\ UNCHANGED <<DownloadInputs, dfile, dhash, dsig, tmps, tpc, tres, oplog,
                   held, processed_paths, dl_num_good, dl_num_bad, written,
                   dl_result>>
    /\ UNCHANGED OthersDownload

NextCrateDownload ==
    \/ crate_verify_hash
    \/ adownload_verify_hash_begin
    \/ adownload_verify_hash_end
    \/ process_crates_end

NextDistDownload ==
    \/ skip_duplicate
    \/ dist_verify
    \/ adownload_verify_begin
    \/ adownload_verify_hash_fetched
    \/ adownload_verify_sig_fetched
    \/ adownload_verify_dest_fetched
    \/ download_verify_end

NextDownload ==
    \/ start_soon
    \/ keyboard_interrupt
    \/ run_finally
    \/ NextCrateDownload
    \/ NextDistDownload

-----------------------------------------------------------------------------
(***************************************************************************)
(* The crate range and its delta: CrateFilter (crate.py 218-300),          *)
(* blobs_in_commit_range (303-327), blob_crates (384-390),                 *)
(* crate_changes_in_commit_range (393-439), crate_changes_in_range         *)
(* (442-456), Main.get_start (1161-1177), Main._run (1428-1432).           *)
(***************************************************************************)
NoneStart == "None"

\* fnmatch.fnmatchcase for patterns of literals, "?" and "*".
RECURSIVE fnmatchcase(_, _)
fnmatchcase(name, pat) ==
    IF pat = <<>> THEN name = <<>>
    ELSE IF Head(pat) = "*"
    THEN \/ fnmatchcase(name, Tail(pat))
         \/ name # <<>> /\ fnmatchcase(Tail(name), pat)
    ELSE /\ name # <<>>
         /\ Head(pat) = "?" \/ Head(pat) = Head(name)
         /\ fnmatchcase(Tail(name), Tail(pat))

\* crate.py 218-222
has_meta(pat) == \E i \in 1 .. Len(pat) : pat[i] \in {"*", "?", "[", "]"}

\* crate.py 234
all_versions_pat == {<<"*">>}

\* crate.py 236-237
is_filtered == DOMAIN exact_map \cup DOMAIN pattern_map # {}

\* crate.py 248-260: the maps after add(pat).
CrateFilter_add_Replace(maps, pat) ==
    LET at == {i \in 1 .. Len(pat) : pat[i] = "@"}
        cut == IF at = {} THEN Len(pat) + 1
               ELSE CHOOSE i \in at : \A j \in at : i <= j
        name_part == SubSeq(pat, 1, cut - 1)
        version_part == DropFirst(pat, cut)
        crate_name_pat == IF name_part = <<>> THEN <<"*">> ELSE name_part
        version_pat == IF version_part = <<>> THEN <<"*">> ELSE version_part
        d == IF has_meta(crate_name_pat) THEN maps.pattern ELSE maps.exact
        new_d == IF version_pat = <<"*">>
                 THEN Put(d, crate_name_pat, all_versions_pat)
                 ELSE Put(d, crate_name_pat, {version_pat})
    IN  IF has_meta(crate_name_pat)
        THEN [exact |-> maps.exact, pattern |-> new_d]
        ELSE [exact |-> new_d, pattern |-> maps.pattern]

CrateFilter_add(maps, pat) ==
    LET at == {i \in 1 .. Len(pat) : pat[i] = "@"}
        cut == IF at = {} THEN Len(pat) + 1
               ELSE CHOOSE i \in at : \A j \in at : i <= j
        name_part == SubSeq(pat, 1, cut - 1)
        version_part == DropFirst(pat, cut)
        crate_name_pat == IF name_part = <<>> THEN <<"*">> ELSE name_part
        version_pat == IF version_part = <<>> THEN <<"*">> ELSE version_part
        d == IF has_meta(crate_name_pat) THEN maps.pattern ELSE maps.exact
        pats == IF crate_name_pat \in DOMAIN d THEN d[crate_name_pat] ELSE {}
        new_d == IF version_pat = <<"*">>
                 THEN Put(d, crate_name_pat, all_versions_pat)
                 ELSE IF pats = all_versions_pat THEN d
                 ELSE Put(d, crate_name_pat, pats \cup {version_pat})
    IN  IF has_meta(crate_name_pat)
        THEN [exact |-> maps.exact, pattern |-> new_d]
        ELSE [exact |-> new_d, pattern |-> maps.pattern]

\* crate.py 1406-1412: every pattern is added, in order.
RECURSIVE setup_filters(_, _)
setup_filters(maps, strs) ==
    IF strs = <<>> THEN maps
    ELSE setup_filters(CrateFilter_add(maps, Head(strs)), Tail(strs))

\* crate.py 262-273: the sets of version patterns that apply to a name.
version_pats(name) ==
    IF ~is_filtered THEN {all_versions_pat}
    ELSE (IF name \in DOMAIN exact_map THEN {exact_map[name]} ELSE {})
         \cup {pattern_map[name_pat] :
                  name_pat \in {q \in DOMAIN pattern_map : fnmatchcase(name, q)}}

\* crate.py 275-276
name_matches(name) == version_pats(name) # {}

\* crate.py 278-300
filter_crate_versions_All(crate_name, versions) == versions

filter_crate_versions(crate_name, versions) ==
    {version \in versions :
        \E pats \in version_pats(crate_name) :
            \/ pats = all_versions_pat
            \/ \E pat \in pats : fnmatchcase(version, pat)}

\* os.path.basename
basename(path) == LET segs == SplitSlash(path) IN segs[Len(segs)]

\* crate.py 400-410: the four shapes of an index path.
rex_search(path) ==
    LET segs == SplitSlash(path)
        n == Len(segs)
    IN  \/ n = 2 /\ segs[1] = <<"1">> /\ Len(segs[2]) = 1
        \/ n = 2 /\ segs[1] = <<"2">> /\ Len(segs[2]) = 2
        \/ n = 3 /\ segs[1] = <<"3">> /\ Len(segs[2]) = 1 /\ Len(segs[3]) = 3
        \/ n = 3 /\ Len(segs[1]) = 2 /\ Len(segs[2]) = 2 /\ Len(segs[3]) >= 4

\* crate.py 384-390: the crates of a blob; the last line of a version wins.
blob_crates(blob) ==
    {blob[i] : i \in {k \in 1 .. Len(blob) :
                        \A j \in k + 1 .. Len(blob) : blob[j].vers # blob[k].vers}}

\* crate.py 430-436
is_added_IfNew(old, crate) == \A o \in old : o.vers # crate.vers

is_added(old, crate) ==
    \/ \A o \in old : o.vers # crate.vers
    \/ \E o \in old : o.vers = crate.vers /\ o.cksum # crate.cksum

\* crate.py 415-439: the changes of one blob that the range yields.
blob_changes(path, lower_name, s_blob, e_blob) ==
    IF ~rex_search(path) THEN [added |-> {}, removed |-> {}]
    ELSE LET old == blob_crates(s_blob)
             new == blob_crates(e_blob)
             filtered_versions ==
                 filter_crate_versions(lower_name,
                     {c.vers : c \in old} \cup {c.vers : c \in new})
         IN  [removed |-> {c \in old : /\ c.vers \in filtered_versions
                                       /\ \A n \in new : n.vers # c.vers},
              added |-> {c \in new : /\ c.vers \in filtered_versions
                                     /\ is_added(old, c)}]

\* crate.py 303-327: what the range yields for the blob, with the START
\* commit (a diff entry when the blob changed) or without it (every blob of
\* the END tree).
crate_changes_in_commit_range(has_start_commit) ==
    LET lower_name == LowerStr(basename(blob_path))
    IN  IF has_start_commit /\ start_blob = end_blob
        THEN [added |-> {}, removed |-> {}]
        ELSE IF ~name_matches(lower_name)
        THEN [added |-> {}, removed |-> {}]
        ELSE blob_changes(blob_path, lower_name,
                          IF has_start_commit THEN start_blob ELSE <<>>,
                          end_blob)

IndexPaths ==
    { <<"1", "/", "a">>,
      <<"2", "/", "A", "B">>,
      <<"3", "/", "a", "/", "a", "b", "c">>,
      <<"a", "b", "/", "c", "d", "/", "a", "b", "c", "d">>,
      <<"1", "/", "a", "b">>,
      <<"a", "b", "/", "c", "d", "/", "a", "b", "c">>,
      <<"a", "b", "c", "d">>,
      <<"x", "/", "a", "b", "/", "c", "d", "/", "a", "b", "c", "d">> }

IndexVersions == {<<"1", ".", "0">>, <<"1", ".", "1">>}
IndexHashes == {"h1", "h2"}

\* crate.py 379-381: one line of a blob, as crate_from_text reads it.
IndexLine(name, vers, cksum) == [name |-> name, vers |-> vers, cksum |-> cksum]

\* The blobs of a crate: each version is missing or listed once.
BlobsOf(name) ==
    { (IF a = "none" THEN <<>> ELSE <<IndexLine(name, <<"1", ".", "0">>, a)>>)
        \o (IF b = "none" THEN <<>>
            ELSE <<IndexLine(name, <<"1", ".", "1">>, b)>>) :
      a \in IndexHashes \cup {"none"}, b \in IndexHashes \cup {"none"} }

FilterStrs ==
    { <<"a", "b", "c", "d">>,
      <<"a", "b", "c", "d", "@", "1", ".", "0">>,
      <<"a", "*", "@", "1", ".", "?">>,
      <<"@", "1", ".", "1">> }

EmptyMap == [x \in {} |-> {}]

RangeIdleFields ==
    /\ exact_map = EmptyMap
    /\ pattern_map = EmptyMap
    /\ rpc = "init"
    /\ crates_added = {}
    /\ crates_removed = {}
    /\ rerror = NoError

\* A range from the start of the repository or from an existing commit.
InitDelta ==
    /\ cli_start \in {"0", "v1"}
    /\ args_start = cli_start
    /\ allow_missing_start = FALSE
    /\ start_exists = TRUE
    /\ filter_strs \in SeqsUpTo(FilterStrs, MaxFilters)
    /\ blob_path \in IndexPaths
    /\ start_blob \in BlobsOf(basename(blob_path))
    /\ end_blob \in BlobsOf(basename(blob_path))
    /\ RangeIdleFields

\* Every way of giving START.
InitStart ==
    /\ cli_start \in {NoneStart, "", "0", "mark", "v1"}
    /\ args_start = cli_start
    /\ allow_missing_start \in BOOLEAN
    /\ start_exists \in BOOLEAN
    /\ filter_strs \in {<<>>, << <<"@", "1", ".", "1">> >>}
    /\ blob_path \in { <<"a", "b", "/", "c", "d", "/", "a", "b", "c", "d">>,
                       <<"a", "b", "c", "d">> }
    /\ start_blob \in BlobsOf(basename(blob_path))
    /\ end_blob \in BlobsOf(basename(blob_path))
    /\ RangeIdleFields

IdleRange ==
    /\ cli_start = NoneStart
    /\ args_start = NoneStart
    /\ allow_missing_start = FALSE
    /\ start_exists = FALSE
    /\ filter_strs = <<>>
    /\ blob_path = <<"1", "/", "a">>
    /\ start_blob = <<>>
    /\ end_blob = <<>>
    /\ RangeIdleFields

OthersRange ==
    <<varsFetch, varsArchive, varsDownload, varsMain, varsMirror>>

\* crate.py 1428-1432: the filters are set up and START gets its default.
run_setup ==
    /\ rpc = "init"
    /\ LET maps == setup_filters([exact |-> EmptyMap, pattern |-> EmptyMap],
                                 filter_strs)
       IN  /\ exact_map' = maps.exact
           /\ pattern_map' = maps.pattern
    /\ IF args_start = NoneStart \/ args_start = ""
       THEN args_start' = "mark" /\ allow_missing_start' = TRUE
       ELSE UNCHANGED <<args_start, allow_missing_start>>
    /\ rpc' = "ready"
    /\ UNCHANGED <<cli_start, start_exists, filter_strs, blob_path, start_blob,
                   end_blob, crates_added, crates_removed, rerror>>
    /\ UNCHANGED OthersRange

\* crate.py 1161-1166
get_start_raw == IF args_start = "0" THEN "" ELSE args_start

\* crate.py 1168-1177
get_start_Strict == get_start_raw

get_start ==
    IF get_start_raw # "" /\ allow_missing_start /\ ~start_exists THEN ""
    ELSE get_start_raw

\* crate.py 1200-1222, 442-456: the crate list of the range is calculated.
get_crates_changed ==
    /\ rpc = "ready"
    /\ LET start == get_start
       IN  IF start # "" /\ ~start_exists
           THEN /\ rerror' = "GitError"
                /\ rpc' = "error"
                /\ UNCHANGED <<crates_added, crates_removed>>
           ELSE LET changes == crate_changes_in_commit_range(start # "")
                IN  /\ crates_added' = changes.added
                    /\ crates_removed' = changes.removed
                    /\ rpc' = "done"
                    /\ UNCHANGED rerror
    /\ UNCHANGED <<cli_start, args_start, allow_missing_start, start_exists,
                   filter_strs, blob_path, start_blob, end_blob, exact_map,
                   pattern_map>>
    /\ UNCHANGED OthersRange

NextRange == run_setup \/ get_crates_changed

-----------------------------------------------------------------------------
(***************************************************************************)
(* The crate command loop: crate.py 1428-1455 (Main._run), with the        *)
(* handlers that move branches: cmd_pull 1287-1291, cmd_mark 1306-1311,    *)
(* cmd_config 1401-1404, mark 520-532, merge_origin_master 875-905.        *)
(*                                                                         *)
(* A command word is one token; the text of an alias is a sequence of      *)
(* words separated by " " tokens.                                          *)
(***************************************************************************)

\* crate.py 1263-1278
valid_commands ==
    {"pull", "prune", "download", "verify", "pack", "mark", "unpack", "list",
     "update", "export", "import", "init", "init-import", "config"}

\* The command words given on the modelled command lines ("bogus" is not a
\* valid command).
CommandWords ==
    {"pull", "download", "mark", "list", "config", "update", "export",
     "import", "init", "pack", "bogus"}

\* The local branches of the index repository that romt names: mark 520-532,
\* working 875-886, origin_master 503-506, bundle/master 459-474.
Branches == {"mark", "master", "working", "origin_master", "bundle/master"}

\* str.split(): the words between runs of whitespace.
RECURSIVE split(_)
split(s) ==
    IF s = <<>> THEN <<>>
    ELSE IF Head(s) \in Whitespace THEN split(Tail(s))
    ELSE <<Head(s)>> \o split(Tail(s))

\* crate.py 1444-1450
alias_cmd(command) ==
    IF command = "update"
    THEN <<"pull", " ", "prune", " ", "download", " ", "mark">>
    ELSE IF command = "export"
    THEN <<"pull", " ", "prune", " ", "download", " ", "pack", " ", "mark">>
    ELSE <<"unpack", " ", "pull", " ", "prune", " ", "verify", " ", "mark">>

\* crate.py 1451
alias_expand_AtEnd(command, rest) == rest \o split(alias_cmd(command))

alias_expand(command, rest) == split(alias_cmd(command)) \o rest

\* crate.py 1453-1455: the handler is called with no exception handling, so
\* an exception leaves the loop and _run.
after_step_Continue(ok) == "loop"

after_step(ok) == IF ok THEN "loop" ELSE "error"

\* The commit that END names: HEAD (the default, crate.py 1022-1027) or a
\* branch.  Absent when it names no commit.
end_commit(r, head, end) == IF end = "HEAD" THEN r[head] ELSE r[end]

\* crate.py 520-532: every branch of ["mark", "master"] that is not the
\* current HEAD is moved to END.
mark_All(r, head, end) ==
    [b \in Branches |-> IF b \in {"mark", "master"} THEN end ELSE r[b]]

mark(r, head, end) ==
    [b \in Branches |->
        IF b \in {"mark", "master"} /\ b # head THEN end ELSE r[b]]

\* crate.py 875-886
upgrade_to_working(r, head) ==
    IF head # "working" /\ r["working"] = Absent
    THEN [head |-> "working", refs |-> [r EXCEPT !["working"] = r[head]]]
    ELSE [head |-> head, refs |-> r]

\* crate.py 503-506: create_head("origin_master", ..., force=True)
fetch_origin(r) == [r EXCEPT !["origin_master"] = "c_origin"]

\* crate.py 459-474: unless END is master, branch bundle/master is set to END.
git_bundle_create(r, head, end) ==
    IF end = "master" THEN r
    ELSE [r EXCEPT !["bundle/master"] = end_commit(r, head, end)]

\* crate.py 865-872: whether update_config_json writes and commits: the file
\* is absent or differs from `config`.
update_config_json_Never(old_config, config) == FALSE

update_config_json(old_config, config) ==
    old_config = Absent \/ config # old_config

\* crate.py 889-905: what config.json holds after merge_origin_master, given
\* what it held before and what the merge or the reset left.
restored_config_json(initial_config, merged_config) ==
    IF initial_config # Absent
          /\ update_config_json(merged_config, initial_config)
    THEN initial_config
    ELSE merged_config

\* Whether the restore made a commit "Apply config.json adjustments".
restore_commits(initial_config, merged_config) ==
    initial_config # Absent /\ update_config_json(merged_config, initial_config)

\* crate.py 156-172: with a config.toml that selects MIXED, an uppercased
\* sibling of config.toml means a case-insensitive filesystem.
prevent_mixed_with_case_insensitive_Never(toml, upper_exists) == "ok"

prevent_mixed_with_case_insensitive(toml, upper_exists) ==
    IF toml \notin PrefixStyle THEN "ok"
    ELSE IF toml = MIXED /\ upper_exists THEN "AbortError"
    ELSE "ok"

\* On a case-insensitive filesystem CONFIG.TOML names config.toml.
upper_config_exists(toml) == fs_case_insensitive /\ toml \in PrefixStyle

NoDir == "nodir"

ConfigJsons == {"cfg_local", "cfg_origin"}

\* crate.py 1156-1158, 1197-1199: no crate lists are cached.
NoCache == [start |-> "none", end |-> "none"]

\* crate.py 1168-1177, 1206-1209: the commits of START and END that
\* crate_changes_in_range reads; a START that names no branch is the start
\* of the repository.
range_commits(r, head) ==
    [start |-> IF r[main_start] = Absent THEN "" ELSE r[main_start],
     end |-> end_commit(r, head, args_end)]

\* crate.py 1201-1222: the cached lists are returned when there are any;
\* otherwise they are calculated from the range, which raises when the
\* index or END is missing.
get_crates_changed_cached(cache, r, head) ==
    IF cache # NoCache THEN cache
    ELSE IF index_dir /\ end_valid /\ end_commit(r, head, args_end) # Absent
    THEN range_commits(r, head)
    ELSE cache

MainIdleFields ==
    /\ commands = <<>>
    /\ executed = <<>>
    /\ mpc = "init"
    /\ merror = NoError

\* Whether the command line holds one of `words`.
Uses(words) == \E i \in 1 .. Len(args_commands) : args_commands[i] \in words

ReadEnd == {"mark", "config", "pack", "update", "export", "import"}

\* The command line and the directories before the run.  An option that no
\* command of the line reads has its default.  The index repository, when
\* it exists: HEAD is a valid branch; mark and working may not exist yet;
\* config.json is committed as it is in the working tree.  The crates root:
\* absent, without config.toml (legacy), or with one.
InitMain ==
    /\ args_commands \in SeqsUpTo(CommandWords, MaxCommands)
    /\ end_valid \in (IF Uses(ReadEnd) THEN BOOLEAN ELSE {TRUE})
    /\ args_end \in (IF Uses(ReadEnd) THEN {"HEAD", "master"} ELSE {"HEAD"})
    /\ args_prefix \in (IF Uses({"init"}) THEN PrefixStyle ELSE {LOWER})
    /\ config_toml \in
          (IF Uses({"init"}) THEN {NoDir, Absent} ELSE {}) \cup PrefixStyle
    /\ fs_case_insensitive \in
          (IF MIXED \in {config_toml, args_prefix} THEN BOOLEAN ELSE {FALSE})
    /\ args_keep_going \in
          (IF Uses({"download", "update", "export", "import"}) THEN BOOLEAN
           ELSE {FALSE})
    /\ main_start = "mark"
    /\ crates_cache = NoCache
    /\ index_dir \in BOOLEAN
    /\ IF index_dir
       THEN /\ head_ref \in {"mark", "master", "working"}
            /\ \E m \in {Absent, "c_old"}, w \in {Absent, "c_old"} :
                  refs = [b \in Branches |->
                             IF b = head_ref THEN "c_head"
                             ELSE IF b = "mark" THEN m
                             ELSE IF b = "working" THEN w
                             ELSE IF b = "master" THEN "c_old"
                             ELSE Absent]
            /\ config_json \in
                  (IF Uses(ReadEnd \cup {"pull"}) THEN {Absent, "cfg_local"}
                   ELSE {Absent})
       ELSE /\ head_ref = "working"
            /\ refs = [b \in Branches |-> Absent]
            /\ config_json = Absent
    /\ head_config = config_json
    /\ MainIdleFields

IdleMain ==
    /\ args_commands = <<>>
    /\ end_valid = TRUE
    /\ args_end = "HEAD"
    /\ args_prefix = LOWER
    /\ fs_case_insensitive = FALSE
    /\ args_keep_going = FALSE
    /\ main_start = "mark"
    /\ crates_cache = NoCache
    /\ config_toml = LOWER
    /\ index_dir = TRUE
    /\ head_ref = "working"
    /\ refs = [b \in Branches |-> "c_head"]
    /\ config_json = Absent
    /\ head_config = Absent
    /\ MainIdleFields

OthersMain ==
    <<varsFetch, varsArchive, varsDownload, varsRange, varsMirror>>

MainInputs ==
    <<args_commands, end_valid, args_end, args_prefix, fs_case_insensitive,
      args_keep_going, main_start>>

\* What one handler call leaves behind.
Executed(command, ok, r) == [cmd |-> command, ok |-> ok, mark |-> r["mark"]]

\* What cmd_pack leaves behind: whether the range had crates, and whether
\* the bundle of start..end and the archive were written.
ExecutedPack(ok, r, has_crates, wrote, start, end) ==
    [cmd |-> "pack", ok |-> ok, mark |-> r["mark"], has_crates |-> has_crates,
     wrote |-> wrote, start |-> start, end |-> end]

\* crate.py 1428-1437, 1262-1285, base.py 9-12: the crates root is checked,
\* then the command words are validated, before the loop starts.
get_commands ==
    /\ mpc = "init"
    /\ IF prevent_mixed_with_case_insensitive(
              config_toml, upper_config_exists(config_toml)) # "ok"
       THEN /\ merror' = "AbortError"
            /\ mpc' = "error"
            /\ UNCHANGED commands
       ELSE IF \A i \in 1 .. Len(args_commands) :
                  args_commands[i] \in valid_commands
       THEN /\ commands' = args_commands
            /\ mpc' = "loop"
            /\ UNCHANGED merror
       ELSE /\ merror' = "UsageError"
            /\ mpc' = "error"
            /\ UNCHANGED commands
    /\ UNCHANGED <<MainInputs, config_toml, index_dir, executed, head_ref,
                   refs, config_json, head_config, crates_cache>>
    /\ UNCHANGED OthersMain

\* crate.py 1439-1451: an alias is replaced by its steps.
run_alias ==
    /\ mpc = "loop"
    /\ commands # <<>>
    /\ Head(commands) \in {"update", "export", "import"}
    /\ commands' = alias_expand(Head(commands), Tail(commands))
    /\ UNCHANGED <<MainInputs, config_toml, index_dir, executed, head_ref,
                   refs, config_json, head_config, mpc, merror, crates_cache>>
    /\ UNCHANGED OthersMain

\* A handler that needs the index repository raises UsageError when the
\* index directory does not exist (crate.py 477-481, 1185-1188).
no_index(command) ==
    /\ ~index_dir
    /\ executed' = Append(executed, Executed(command, FALSE, refs))
    /\ mpc' = after_step(FALSE)
    /\ merror' = "UsageError"
    /\ crates_cache' = IF command \in {"pull", "mark", "config"} THEN NoCache
                       ELSE crates_cache
    /\ UNCHANGED <<head_ref, refs, config_json, head_config>>

\* crate.py 1287-1291, 503-506, 875-905: fetch_origin may raise; the merge,
\* or the reset that replaces a failed merge, moves the branch at HEAD and
\* leaves `merged_config` in config.json; the config.json of before is then
\* restored and committed, which may raise.
cmd_pull ==
    /\ mpc = "loop"
    /\ commands # <<>>
    /\ Head(commands) = "pull"
    /\ \/ no_index("pull")
       \/ /\ index_dir
          /\ \E outcome \in {"fetch_raises", "config_raises", "returns"},
                merged_config \in {Absent, config_json} \cup ConfigJsons :
                LET up == upgrade_to_working(fetch_origin(refs), head_ref)
                    merged == [up.refs EXCEPT ![up.head] = "c_origin"]
                    commits == /\ outcome = "returns"
                               /\ restore_commits(config_json, merged_config)
                    ok == outcome = "returns"
                    r == IF outcome = "fetch_raises" THEN refs
                         ELSE IF commits
                         THEN [merged EXCEPT ![up.head] = "c_config"]
                         ELSE merged
                    c == IF outcome = "fetch_raises" THEN config_json
                         ELSE IF outcome = "config_raises" THEN merged_config
                         ELSE restored_config_json(config_json, merged_config)
                IN  /\ refs' = r
                    /\ crates_cache' = NoCache
                    /\ head_ref' = IF outcome = "fetch_raises" THEN head_ref
                                   ELSE up.head
                    /\ config_json' = c
                    /\ head_config' = IF outcome = "fetch_raises"
                                      THEN head_config ELSE c
                    /\ executed' = Append(executed, Executed("pull", ok, r))
                    /\ mpc' = after_step(ok)
                    /\ merror' = IF ok THEN merror ELSE "GitError"
    /\ commands' = Tail(commands)
    /\ UNCHANGED <<MainInputs, config_toml, index_dir>>
    /\ UNCHANGED OthersMain

\* crate.py 1306-1311: create_head raises when END names no commit.
cmd_mark ==
    /\ mpc = "loop"
    /\ commands # <<>>
    /\ Head(commands) = "mark"
    /\ \/ no_index("mark")
       \/ /\ index_dir
          /\ LET end == end_commit(refs, head_ref, args_end)
                 ok == end_valid /\ end # Absent
                 r == IF ok THEN mark(refs, head_ref, end) ELSE refs
             IN  /\ refs' = r
                 /\ crates_cache' = NoCache
                 /\ executed' = Append(executed, Executed("mark", ok, r))
                 /\ mpc' = after_step(ok)
                 /\ merror' = IF ok THEN merror ELSE "GitError"
          /\ UNCHANGED <<head_ref, config_json, head_config>>
    /\ commands' = Tail(commands)
    /\ UNCHANGED <<MainInputs, config_toml, index_dir>>
    /\ UNCHANGED OthersMain

\* crate.py 1401-1404, 976-985, 865-872: configure_index may raise; it
\* writes config.json and commits it on HEAD unless the file has the new
\* content already; then mark is called.
cmd_config ==
    /\ mpc = "loop"
    /\ commands # <<>>
    /\ Head(commands) = "config"
    /\ \/ no_index("config")
       \/ /\ index_dir
          /\ \E configured \in BOOLEAN :
                LET commits == /\ configured
                               /\ update_config_json(config_json, "cfg_server")
                    committed == IF commits
                                 THEN [refs EXCEPT ![head_ref] = "c_config"]
                                 ELSE refs
                    end == end_commit(committed, head_ref, args_end)
                    ok == configured /\ end_valid /\ end # Absent
                    r == IF ok THEN mark(committed, head_ref, end)
                         ELSE committed
                IN  /\ refs' = r
                    /\ crates_cache' = NoCache
                    /\ config_json' = IF configured THEN "cfg_server"
                                      ELSE config_json
                    /\ head_config' = IF configured THEN "cfg_server"
                                      ELSE head_config
                    /\ executed' = Append(executed, Executed("config", ok, r))
                    /\ mpc' = after_step(ok)
                    /\ merror' = IF ok THEN merror ELSE "GitError"
          /\ UNCHANGED head_ref
    /\ commands' = Tail(commands)
    /\ UNCHANGED <<MainInputs, config_toml, index_dir>>
    /\ UNCHANGED OthersMain

\* crate.py 1362-1380: with crates to pack, the bundle is created, which
\* sets branch bundle/master, and pack is called; each may raise.
cmd_pack ==
    /\ mpc = "loop"
    /\ commands # <<>>
    /\ Head(commands) = "pack"
    /\ \/ no_index("pack")
       \/ /\ index_dir
          /\ \E has_crates \in BOOLEAN, packed \in BOOLEAN :
                LET end == end_commit(refs, head_ref, args_end)
                    bundled == end_valid /\ end # Absent
                    ok == ~has_crates \/ (bundled /\ packed)
                    r == IF has_crates /\ bundled
                         THEN git_bundle_create(refs, head_ref, args_end)
                         ELSE refs
                IN  /\ refs' = r
                    /\ crates_cache' =
                          get_crates_changed_cached(crates_cache, refs, head_ref)
                    /\ executed' = Append(executed,
                          ExecutedPack(ok, r, has_crates,
                                       has_crates /\ bundled /\ packed,
                                       refs["mark"], end))
                    /\ mpc' = after_step(ok)
                    /\ merror' = IF ok THEN merror
                                 ELSE IF bundled THEN "AbortError"
                                 ELSE "GitError"
          /\ UNCHANGED <<head_ref, config_json, head_config>>
    /\ commands' = Tail(commands)
    /\ UNCHANGED <<MainInputs, config_toml, index_dir>>
    /\ UNCHANGED OthersMain

\* crate.py 1382-1399, 908-961: init and init-import.  Both directories must
\* not exist; the crates root is created with its config.toml, and removed
\* again when the check raises; then the index repository is created with
\* HEAD at the unborn branch working.
cmd_init ==
    /\ mpc = "loop"
    /\ commands # <<>>
    /\ Head(commands) \in {"init", "init-import"}
    /\ LET usage == index_dir \/ config_toml # NoDir
           check == prevent_mixed_with_case_insensitive(
                        args_prefix, upper_config_exists(args_prefix))
           ok == ~usage /\ check = "ok"
       IN  /\ config_toml' = IF ok THEN args_prefix ELSE config_toml
           /\ index_dir' = (index_dir \/ ok)
           /\ executed' = Append(executed, Executed(Head(commands), ok, refs))
           /\ mpc' = after_step(ok)
           /\ merror' = IF ok THEN merror
                        ELSE IF usage THEN "UsageError"
                        ELSE "AbortError"
    /\ commands' = Tail(commands)
    /\ UNCHANGED <<MainInputs, head_ref, refs, config_json, head_config,
                   crates_cache>>
    /\ UNCHANGED OthersMain

\* crate.py 651-659: _process_crates counts the crates that failed and
\* raises AbortError after the batch unless keep_going is set.
download_ok_Strict(outcome, keep_going) == outcome = "all_good"

download_ok(outcome, keep_going) ==
    \/ outcome = "all_good"
    \/ outcome = "some_bad" /\ keep_going

\* What cmd_download and cmd_verify leave behind: whether a crate of the
\* batch failed.
ExecutedDownload(command, ok, r, bad) ==
    [cmd |-> command, ok |-> ok, mark |-> r["mark"], bad |-> bad]

\* crate.py 1336-1360, 564-659: download and verify process the crates of
\* the range; the batch is good, or some crates fail, or something else
\* raises before or during the batch.
cmd_download ==
    /\ mpc = "loop"
    /\ commands # <<>>
    /\ Head(commands) \in {"download", "verify"}
    /\ \E outcome \in {"raises", "all_good", "some_bad"} :
          LET ok == download_ok(outcome, args_keep_going)
          IN  /\ executed' = Append(executed,
                     ExecutedDownload(Head(commands), ok, refs,
                                      outcome = "some_bad"))
              /\ mpc' = after_step(ok)
              /\ merror' = IF ok THEN merror ELSE "AbortError"
              /\ \E read \in BOOLEAN :
                    /\ outcome # "raises" => read
                    /\ crates_cache' =
                          IF read
                          THEN get_crates_changed_cached(crates_cache, refs,
                                                         head_ref)
                          ELSE crates_cache
    /\ commands' = Tail(commands)
    /\ UNCHANGED <<MainInputs, config_toml, index_dir, head_ref, refs,
                   config_json, head_config>>
    /\ UNCHANGED OthersMain

\* crate.py 1293-1334: the handlers that change neither the index
\* repository nor the directories that init creates (prune, unpack, list)
\* return or raise.  prune and list read the crate lists; unpack forgets
\* them first.
cmd_other ==
    /\ mpc = "loop"
    /\ commands # <<>>
    /\ Head(commands) \in {"prune", "unpack", "list"}
    /\ \E ok \in BOOLEAN :
          /\ executed' = Append(executed, Executed(Head(commands), ok, refs))
          /\ mpc' = after_step(ok)
          /\ merror' = IF ok THEN merror ELSE "AbortError"
          /\ IF Head(commands) = "unpack"
             THEN crates_cache' = NoCache
             ELSE \E read \in BOOLEAN :
                     /\ ok => read
                     /\ crates_cache' =
                           IF read
                           THEN get_crates_changed_cached(crates_cache, refs,
                                                          head_ref)
                           ELSE crates_cache
    /\ commands' = Tail(commands)
    /\ UNCHANGED <<MainInputs, config_toml, index_dir, head_ref, refs,
                   config_json, head_config>>
    /\ UNCHANGED OthersMain

\* crate.py 1439: the loop ends when no command is left.
run_end ==
    /\ mpc = "loop"
    /\ commands = <<>>
    /\ mpc' = "done"
    /\ UNCHANGED <<MainInputs, config_toml, index_dir, commands, executed,
                   head_ref, refs, config_json, head_config, merror,
                   crates_cache>>
    /\ UNCHANGED OthersMain

NextMain ==
    \/ get_commands
    \/ run_alias
    \/ cmd_pull
    \/ cmd_mark
    \/ cmd_config
    \/ cmd_pack
    \/ cmd_init
    \/ cmd_download
    \/ cmd_other
    \/ run_end

-----------------------------------------------------------------------------
(***************************************************************************)
(* crate prune: Main.cmd_prune and common.remove_empty_dirs.               *)
(* A directory below the crates root is the sequence of its path parts.    *)
(***************************************************************************)
MaxPruned == 2
MaxPruneRuns == 2

crate_rel_path(c, style) ==
    crate_rel_path_from_name_version(c.name, c.version, style)

Front(q) == SubSeq(q, 1, Len(q) - 1)

\* os.path.dirname(crate_rel_path), split by re.split(r"[\\/]+", ...)
dirname_parts(rel_path) == Front(SplitSlash(rel_path))

\* every directory below the root on the way to rel_path
AncestorDirs(rel_path) ==
    LET parts == dirname_parts(rel_path)
    IN  {SubSeq(parts, 1, k) : k \in 1 .. Len(parts)}

\* the directories that the downloads of the files F have made
DirsMadeFor(F) == UNION {AncestorDirs(f) : f \in F}

\* os.rmdir succeeds on an existing directory that holds nothing
DirEmpty(d, F, D) ==
    /\ \A f \in F : dirname_parts(f) # d
    /\ \A e \in D : Len(e) = 0 \/ Front(e) # d

rmdir_ok(d, F, D) == d \in D /\ DirEmpty(d, F, D)

\* common.py 142-144: "Do nothing with weird subdirectories."
weird_parts(parts) ==
    parts = <<>> \/ \E i \in 1 .. Len(parts) : parts[i] \in {<<>>, <<".">>, <<"..">>}

PruneIdleFields ==
    /\ pr_style = LOWER
    /\ pr_removed = <<>>
    /\ pr_files0 = {}
    /\ pr_files = {}
    /\ pr_dirs = {}
    /\ pr_idx = 1
    /\ pr_parts = <<>>
    /\ pr_runs = 0

\* The crates root holds the files of some crates, each in the directories
\* that its download made; the delta names at most MaxPruned removed crates,
\* present or not.
InitPrune ==
    /\ pr_style \in PrefixStyle
    /\ \E R \in SubsetsUpTo(Crates, MaxPruned) : pr_removed = SortedCrates(R)
    /\ \E T \in SUBSET Crates :
           pr_files0 = {crate_rel_path(c, pr_style) : c \in T}
    /\ pr_files = pr_files0
    /\ pr_dirs = DirsMadeFor(pr_files0)
    /\ pr_idx = 1
    /\ pr_parts = <<>>
    /\ pr_runs = 1
    /\ ppc = "loop"

IdlePrune == PruneIdleFields /\ ppc = "idle"

PruneInputs == <<pr_style, pr_removed, pr_files0>>

\* crate.py 1297-1304, common.py 141-144: one pass of the loop up to the
\* first rmdir: the file is unlinked (missing_ok) and the parts are split.
prune_crate ==
    /\ ppc = "loop"
    /\ pr_idx <= Len(pr_removed)
    /\ LET crate_rel == crate_rel_path(pr_removed[pr_idx], pr_style)
           parts == dirname_parts(crate_rel)
       IN  /\ pr_files' = pr_files \ {crate_rel}
           /\ IF weird_parts(parts)
              THEN pr_parts' = <<>> /\ pr_idx' = pr_idx + 1 /\ ppc' = "loop"
              ELSE pr_parts' = parts /\ pr_idx' = pr_idx /\ ppc' = "rmdir"
    /\ UNCHANGED <<PruneInputs, pr_dirs, pr_runs>>
    /\ UNCHANGED OthersPrune

\* common.py 146-152: one pass of `while parts`: rmdir, return on OSError
\* (the directory is not empty, or is not there), else pop the last part.
remove_empty_dirs ==
    /\ ppc = "rmdir"
    /\ IF rmdir_ok(pr_parts, pr_files, pr_dirs)
       THEN /\ pr_dirs' = pr_dirs \ {pr_parts}
            /\ pr_parts' = Front(pr_parts)
       ELSE /\ pr_dirs' = pr_dirs
            /\ pr_parts' = <<>>
    /\ IF pr_parts' = <<>>
       THEN pr_idx' = pr_idx + 1 /\ ppc' = "loop"
       ELSE pr_idx' = pr_idx /\ ppc' = "rmdir"
    /\ UNCHANGED <<PruneInputs, pr_files, pr_runs>>
    /\ UNCHANGED OthersPrune

\* crate.py 1297: the loop is over.
prune_end ==
    /\ ppc = "loop"
    /\ pr_idx > Len(pr_removed)
    /\ ppc' = "done"
    /\ UNCHANGED <<PruneInputs, pr_files, pr_dirs, pr_idx, pr_parts, pr_runs>>
    /\ UNCHANGED OthersPrune

\* KeyboardInterrupt between two system calls of cmd_prune: nothing catches
\* it, the run ends where it is.
prune_interrupt ==
    /\ ppc \in {"loop", "rmdir"}
    /\ pr_idx <= Len(pr_removed)
    /\ ppc' = "interrupted"
    /\ UNCHANGED <<PruneInputs, pr_files, pr_dirs, pr_idx, pr_parts, pr_runs>>
    /\ UNCHANGED OthersPrune

\* crate.py 1293-1297: prune is run again before any mark, so that
\* get_crates_removed gives the same crates.
prune_again ==
    /\ ppc \in {"interrupted", "done"}
    /\ pr_runs < MaxPruneRuns
    /\ pr_runs' = pr_runs + 1
    /\ pr_idx' = 1
    /\ pr_parts' = <<>>
    /\ ppc' = "loop"
    /\ UNCHANGED <<PruneInputs, pr_files, pr_dirs>>
    /\ UNCHANGED OthersPrune

NextPrune ==
    \/ prune_crate
    \/ remove_empty_dirs
    \/ prune_end
    \/ prune_interrupt
    \/ prune_again

-----------------------------------------------------------------------------
(***************************************************************************)
(* toolchain fixup: Main.cmd_fixup, _write_manifest_variations and         *)
(* _write_manifest, for the manifests of one channel.  A date is the       *)
(* string yyyy-mm-dd, one token per character; the manifest stored at      *)
(* dist/<date>/channel-rust-<channel>.toml is named by its date.           *)
(***************************************************************************)
MaxFixups == 3

\* code points of the characters of dates and versions
CodePoint(c) ==
    CASE c = "-" -> 45
      [] c = "." -> 46
      [] c = "0" -> 48
      [] c = "1" -> 49
      [] c = "2" -> 50
      [] c = "3" -> 51
      [] c = "4" -> 52
      [] c = "5" -> 53
      [] c = "6" -> 54
      [] c = "7" -> 55
      [] c = "8" -> 56
      [] c = "9" -> 57
      [] OTHER -> 0

\* Python's s < t for strings
RECURSIVE str_lt(_, _)
str_lt(s, t) ==
    IF t = <<>> THEN FALSE
    ELSE IF s = <<>> THEN TRUE
    ELSE IF CodePoint(Head(s)) # CodePoint(Head(t))
         THEN CodePoint(Head(s)) < CodePoint(Head(t))
    ELSE str_lt(Tail(s), Tail(t))

\* Python's s >= t for strings
str_ge(s, t) == ~str_lt(s, t)

Dates ==
    { <<"2", "0", "1", "9", "-", "1", "2", "-", "3", "1">>,
      <<"2", "0", "2", "0", "-", "0", "1", "-", "0", "9">>,
      <<"2", "0", "2", "0", "-", "0", "1", "-", "1", "0">> }

NoDate == <<>>

\* a file that is not there
NoManifest == <<"absent">>

\* toolchain.py 693-700: whether the top-level manifest is written
write_top_Always(top_is_file, date, top_date) == TRUE

write_top(top_is_file, date, top_date) ==
    IF top_is_file THEN str_ge(date, top_date) ELSE TRUE

\* download.py 110-121: the file and its .sha256 are there and agree, and
\* with --with-sig the signature is that of the file.
verify_manifest(man, man_hash, man_sig, sig) ==
    IF man = NoManifest \/ man_hash = NoManifest THEN "MissingFileError"
    ELSE IF man_hash # man THEN "IntegrityError"
    ELSE IF sig /\ man_sig # man THEN "IntegrityError"
    ELSE "ok"

\* toolchain.py 225-244 with download=False: the manifest at
\* manifest_path(date, channel), or the error of its verification.
get_manifest(date) ==
    IF date = NoDate
    THEN LET v == verify_manifest(tf_top, tf_top_hash, tf_top_sig, tf_with_sig)
         IN  IF v = "ok" THEN [error |-> "ok", date |-> tf_top]
             ELSE [error |-> v, date |-> NoDate]
    ELSE IF date \in tf_dated THEN [error |-> "ok", date |-> date]
    ELSE [error |-> "MissingFileError", date |-> NoDate]

\* toolchain.py 246-257 with canonical=True
select_manifest(date) ==
    LET manifest == get_manifest(date)
    IN  IF manifest.error = "ok" /\ manifest.date # date
        THEN get_manifest(manifest.date)
        ELSE manifest

ChannelIdleFields ==
    /\ tf_channel = "nightly"
    /\ tf_with_sig = FALSE
    /\ tf_dated = {}
    /\ tf_top = NoManifest
    /\ tf_top_hash = NoManifest
    /\ tf_top_sig = NoManifest
    /\ tf_versioned = {}
    /\ tf_manifest = NoDate
    /\ tf_count = 0
    /\ tf_error = NoError

\* dist/ as downloads left it: dated manifests of the channel with their
\* sidecars, and possibly the undated manifest with the sidecars of some date.
InitChannel ==
    /\ tf_channel \in {"nightly", "stable"}
    /\ tf_with_sig \in BOOLEAN
    /\ tf_dated \in SUBSET Dates
    /\ tf_dated # {}
    /\ tf_top \in Dates \cup {NoManifest}
    /\ tf_top_hash = tf_top
    /\ tf_top_sig = IF tf_with_sig THEN tf_top ELSE NoManifest
    /\ tf_versioned = {}
    /\ tf_manifest = NoDate
    /\ tf_count = 0
    /\ tf_error = NoError
    /\ tfpc = "loop"

IdleChannel == ChannelIdleFields /\ tfpc = "idle"

ChannelInputs == <<tf_channel, tf_with_sig, tf_dated>>

\* toolchain.py 714-718, 689-709, 674-687: the fixup of one SPEC.  The
\* manifest is read from its dated path; the top-level manifest and its
\* sidecars are copied from there unless an existing one is newer; for
\* stable, the version-numbered manifests are written too.
fixup_spec ==
    /\ tfpc = "loop"
    /\ tf_count < MaxFixups
    /\ tf_count' = tf_count + 1
    /\ \E spec_date \in Dates \cup {NoDate} :
           LET manifest == select_manifest(spec_date)
               top_man == get_manifest(NoDate)
               top_is_file == tf_top # NoManifest
           IN  IF manifest.error # "ok"
               THEN /\ tf_error' = manifest.error
                    /\ tfpc' = "raised"
                    /\ tf_manifest' = NoDate
                    /\ UNCHANGED <<tf_top, tf_top_hash, tf_top_sig,
                                   tf_versioned>>
               ELSE IF top_is_file /\ top_man.error # "ok"
               THEN /\ tf_error' = top_man.error
                    /\ tfpc' = "raised"
                    /\ tf_manifest' = manifest.date
                    /\ UNCHANGED <<tf_top, tf_top_hash, tf_top_sig,
                                   tf_versioned>>
               ELSE /\ tf_manifest' = manifest.date
                    /\ IF write_top(top_is_file, manifest.date, top_man.date)
                       THEN /\ tf_top' = manifest.date
                            /\ tf_top_hash' = manifest.date
                            /\ tf_top_sig' = IF tf_with_sig THEN manifest.date
                                             ELSE tf_top_sig
                       ELSE UNCHANGED <<tf_top, tf_top_hash, tf_top_sig>>
                    /\ tf_versioned' =
                           IF tf_channel = "stable"
                           THEN tf_versioned \cup
                                    { [date |-> manifest.date,
                                       manifest |-> manifest.date],
                                      [date |-> NoDate,
                                       manifest |-> manifest.date] }
                           ELSE tf_versioned
                    /\ UNCHANGED <<tf_error, tfpc>>
    /\ UNCHANGED ChannelInputs
    /\ UNCHANGED OthersChannel

\* toolchain.py 712: the loop over the specs is over.
fixup_end ==
    /\ tfpc = "loop"
    /\ tfpc' = "done"
    /\ UNCHANGED <<ChannelInputs, tf_top, tf_top_hash, tf_top_sig,
                   tf_versioned, tf_manifest, tf_count, tf_error>>
    /\ UNCHANGED OthersChannel

\* toolchain.py 711: fixup is run again on the same dist/.
fixup_again ==
    /\ tfpc \in {"done", "raised"}
    /\ tf_count < MaxFixups
    /\ tfpc' = "loop"
    /\ tf_error' = NoError
    /\ UNCHANGED <<ChannelInputs, tf_top, tf_top_hash, tf_top_sig,
                   tf_versioned, tf_manifest, tf_count>>
    /\ UNCHANGED OthersChannel

NextChannel ==
    \/ fixup_spec
    \/ fixup_end
    \/ fixup_again

-----------------------------------------------------------------------------
(***************************************************************************)
(* rustup fixup: Main.cmd_fixup and _fixup_version of rustup.py.           *)
(* A version is the string X.Y.Z, one token per character.                 *)
(***************************************************************************)
MaxRustupFixups == 3

Versions ==
    { <<"1", ".", "9", ".", "0">>,
      <<"1", ".", "1", "0", ".", "0">>,
      <<"1", ".", "1", "0", ".", "1">>,
      <<"2", ".", "0", ".", "0">> }

NoVersion == <<"absent">>

\* str.split(".")
RECURSIVE SplitDot(_)
SplitDot(s) ==
    LET cut == {i \in 1 .. Len(s) : s[i] = "."}
    IN  IF cut = {} THEN <<s>>
        ELSE LET i == CHOOSE j \in cut : \A k \in cut : j <= k
             IN  <<SubSeq(s, 1, i - 1)>> \o SplitDot(SubSeq(s, i + 1, Len(s)))

\* int(v) for a string of decimal digits
RECURSIVE int(_)
int(v) ==
    IF v = <<>> THEN 0
    ELSE 10 * int(SubSeq(v, 1, Len(v) - 1)) + (CodePoint(v[Len(v)]) - 48)

\* common.py 66-67
version_sort_key(version) ==
    LET parts == SplitDot(version)
    IN  [i \in 1 .. Len(parts) |-> int(parts[i])]

\* Python's a < b for tuples of ints
RECURSIVE tuple_lt(_, _)
tuple_lt(a, b) ==
    IF b = <<>> THEN FALSE
    ELSE IF a = <<>> THEN TRUE
    ELSE IF Head(a) # Head(b) THEN Head(a) < Head(b)
    ELSE tuple_lt(Tail(a), Tail(b))

\* rustup.py 447-453: whether release-stable.toml is written
fixup_write_Always(stable_is_file, version, old_version) == TRUE

fixup_write(stable_is_file, version, old_version) ==
    IF stable_is_file
    THEN ~tuple_lt(version_sort_key(version), version_sort_key(old_version))
    ELSE TRUE

RustupIdleFields ==
    /\ ru_archive = {}
    /\ ru_stable = NoVersion
    /\ ru_dist = NoVersion
    /\ ru_version = NoVersion
    /\ ru_old_version = NoVersion
    /\ ru_wrote = FALSE
    /\ ru_count = 0
    /\ ru_error = NoError

\* rustup/ as downloads left it: archive/<version>/ with artifacts for some
\* versions, release-stable.toml naming any version or missing, dist/ a copy
\* of some archive/<version> or missing.
InitRustup ==
    /\ ru_archive \in SUBSET Versions
    /\ ru_stable \in Versions \cup {NoVersion}
    /\ ru_dist \in {ru_stable, NoVersion}
    /\ ru_version = NoVersion
    /\ ru_old_version = NoVersion
    /\ ru_wrote = FALSE
    /\ ru_count = 0
    /\ ru_error = NoError
    /\ rupc = "loop"

IdleRustup == RustupIdleFields /\ rupc = "idle"

\* rustup.py 459-469, 444-456, 227-231: the fixup of one SPEC, a version or
\* "stable".
rustup_fixup_spec ==
    /\ rupc = "loop"
    /\ ru_count < MaxRustupFixups
    /\ ru_count' = ru_count + 1
    /\ \E spec \in Versions \cup {<<"stable">>} :
           LET version == IF spec = <<"stable">> THEN ru_stable ELSE spec
               stable_is_file == ru_stable # NoVersion
               raises == IF version = NoVersion THEN "MissingFileError"
                         ELSE IF version \notin ru_archive THEN "UsageError"
                         ELSE NoError
               write == fixup_write(stable_is_file, version, ru_stable)
           IN  IF raises # NoError
               THEN /\ ru_error' = raises
                    /\ rupc' = "raised"
                    /\ ru_version' = NoVersion
                    /\ ru_old_version' = NoVersion
                    /\ ru_wrote' = FALSE
                    /\ UNCHANGED ru_stable
               ELSE /\ ru_version' = version
                    /\ ru_old_version' = ru_stable
                    /\ ru_wrote' = write
                    /\ ru_stable' = IF write THEN version ELSE ru_stable
                    /\ UNCHANGED <<ru_error, rupc>>
    /\ UNCHANGED <<ru_archive, ru_dist>>
    /\ UNCHANGED OthersRustup

\* rustup.py 471-485: after the loop, archive/<stable_version>/ replaces
\* dist/.
rustup_fixup_end ==
    /\ rupc = "loop"
    /\ LET raises == IF ru_stable = NoVersion THEN "MissingFileError"
                     ELSE IF ru_stable \notin ru_archive
                     THEN "MissingDirectoryError"
                     ELSE NoError
       IN  IF raises # NoError
           THEN ru_error' = raises /\ rupc' = "raised" /\ UNCHANGED ru_dist
           ELSE ru_dist' = ru_stable /\ rupc' = "done" /\ UNCHANGED ru_error
    /\ ru_wrote' = FALSE
    /\ UNCHANGED <<ru_archive, ru_stable, ru_version, ru_old_version, ru_count>>
    /\ UNCHANGED OthersRustup

\* rustup.py 458: fixup is run again on the same rustup/.
rustup_fixup_again ==
    /\ rupc \in {"done", "raised"}
    /\ ru_count < MaxRustupFixups
    /\ rupc' = "loop"
    /\ ru_error' = NoError
    /\ ru_wrote' = FALSE
    /\ UNCHANGED <<ru_archive, ru_stable, ru_dist, ru_version, ru_old_version,
                   ru_count>>
    /\ UNCHANGED OthersRustup

NextRustup ==
    \/ rustup_fixup_spec
    \/ rustup_fixup_end
    \/ rustup_fixup_again

-----------------------------------------------------------------------------
(***************************************************************************)
(* A CrateFilter with its patterns added, asked about one crate name:      *)
(* CrateFilter.name_matches and filter_crate_versions, crate.py 275-300.   *)
(***************************************************************************)
FilterNames == {<<"a", "b">>, <<"a", "b", "c">>, <<"a", "b", "c", "d">>}

FilterVersions ==
    {<<"1", ".", "0">>, <<"1", ".", "1">>, <<"1", ".", "1", "0">>}

FilterIdleFields ==
    /\ flt_name = <<>>
    /\ flt_versions = {}
    /\ flt_matches = FALSE
    /\ flt_selected = {}

IdleFilter == FilterIdleFields /\ fltpc = "idle"

\* The filter is the one pattern N@V of a crate name and a version.
InitFilter ==
    /\ cli_start = "0"
    /\ args_start = "0"
    /\ allow_missing_start = FALSE
    /\ start_exists = TRUE
    /\ \E N \in FilterNames, V \in FilterVersions :
           filter_strs = <<N \o <<"@">> \o V>>
    /\ blob_path = <<"1", "/", "a">>
    /\ start_blob = <<>>
    /\ end_blob = <<>>
    /\ RangeIdleFields
    /\ flt_name \in FilterNames
    /\ flt_versions \in SUBSET FilterVersions
    /\ flt_matches = FALSE
    /\ flt_selected = {}
    /\ fltpc = "ask"

\* crate.py 275-300: both questions are asked of the filter that
\* _setup_filters made.
filter_ask ==
    /\ rpc = "ready"
    /\ fltpc = "ask"
    /\ flt_matches' = name_matches(flt_name)
    /\ flt_selected' = filter_crate_versions(flt_name, flt_versions)
    /\ fltpc' = "done"
    /\ UNCHANGED <<flt_name, flt_versions>>
    /\ UNCHANGED varsRange
    /\ UNCHANGED OthersFilter

NextFilter == run_setup \/ filter_ask

\* The filter is made from any sequence of at most MaxPatterns patterns:
\* exact names and name globs, with and without a version glob, a bare
\* version glob and the empty pattern.
MaxPatterns == 3
SeqPatterns ==
    { <<"a", "b">>,
      <<"a", "b", "@", "1", ".", "0">>,
      <<"a", "b", "@", "*">>,
      <<"a", "b", "@", "1", ".", "1", "*">>,
      <<"a", "*">>,
      <<"a", "*", "@", "1", ".", "?">>,
      <<"a", "b", "c", "@", "1", ".", "1">>,
      <<"@", "1", ".", "1">>,
      <<>> }

InitFilterSeq ==
    /\ cli_start = "0"
    /\ args_start = "0"
    /\ allow_missing_start = FALSE
    /\ start_exists = TRUE
    /\ filter_strs \in SeqsUpTo(SeqPatterns, MaxPatterns)
    /\ blob_path = <<"1", "/", "a">>
    /\ start_blob = <<>>
    /\ end_blob = <<>>
    /\ RangeIdleFields
    /\ flt_name \in FilterNames
    /\ flt_versions \in SUBSET FilterVersions
    /\ flt_matches = FALSE
    /\ flt_selected = {}
    /\ fltpc = "ask"

-----------------------------------------------------------------------------
(***************************************************************************)
(* Functions called on their own, for every argument of a bounded set.     *)
(***************************************************************************)
NoArgs == [none |-> TRUE]
NoResult == [none |-> TRUE]

IdleCall == call_args = NoArgs /\ call_result = NoResult /\ callpc = "idle"

\* The call has not returned yet.
Calling(args) == call_args = args /\ call_result = NoResult /\ callpc = "call"

\* The call returns `result`.
Returns(result) ==
    /\ callpc = "call"
    /\ call_result' = result
    /\ callpc' = "done"
    /\ UNCHANGED call_args
    /\ UNCHANGED OthersCall

MaxNameLen == 5

NameChars == {"a", "B", "c", "D"}

\* crate.py 192-203, called with both prefix styles
InitPrefix ==
    \E name \in SeqsUpTo(NameChars, MaxNameLen) \ {<<>>} :
        Calling([name |-> name])

crate_prefix_call ==
    /\ "name" \in DOMAIN call_args
    /\ Returns([lower |-> crate_prefix_from_name(call_args.name, LOWER),
                mixed |-> crate_prefix_from_name(call_args.name, MIXED)])

IdleMirror ==
    IdlePrune /\ IdleChannel /\ IdleRustup /\ IdleFilter /\ IdleCall

-----------------------------------------------------------------------------
(***************************************************************************)
(* Specifications.                                                         *)
(***************************************************************************)
InitSpecFetch ==
    /\ InitFetch /\ IdleArchive /\ IdleDownload /\ IdleRange /\ IdleMain
    /\ IdleMirror

SpecFetch == InitSpecFetch /\ [][NextFetch]_vars

InitSpecArchive ==
    /\ InitArchive /\ IdleFetch /\ IdleDownload /\ IdleRange /\ IdleMain
    /\ IdleMirror

SpecArchive == InitSpecArchive /\ [][NextArchive]_vars

InitSpecDownload ==
    /\ InitDownload /\ IdleFetch /\ IdleArchive /\ IdleRange /\ IdleMain
    /\ IdleMirror

SpecDownload == InitSpecDownload /\ [][NextDownload]_vars

InitSpecDelta ==
    /\ InitDelta /\ IdleFetch /\ IdleArchive /\ IdleDownload /\ IdleMain
    /\ IdleMirror

SpecDelta == InitSpecDelta /\ [][NextRange]_vars

InitSpecStart ==
    /\ InitStart /\ IdleFetch /\ IdleArchive /\ IdleDownload /\ IdleMain
    /\ IdleMirror

SpecStart == InitSpecStart /\ [][NextRange]_vars

InitSpecMain ==
    /\ InitMain /\ IdleFetch /\ IdleArchive /\ IdleDownload /\ IdleRange
    /\ IdleMirror

SpecMain == InitSpecMain /\ [][NextMain]_vars

\* The three crate loops that count good and bad crates: download, verify
\* (crate.py 565-659) and pack (crate.py 715-759).
InitSpecCrateLoops ==
    /\ \/ InitCrateDownload /\ IdleArchive /\ IdleFetch /\ IdleRange /\ IdleMain
       \/ InitCratePack /\ IdleDownload /\ IdleFetch /\ IdleRange /\ IdleMain
    /\ IdleMirror

NextCratePack ==
    \/ cmd_pack_no_crates
    \/ cmd_pack_open
    \/ pack_add_format
    \/ pack_add_bundle
    \/ pack_add_crate
    \/ pack_close

NextCrateLoops ==
    \/ start_soon
    \/ keyboard_interrupt
    \/ run_finally
    \/ NextCrateDownload
    \/ NextCratePack

SpecCrateLoops == InitSpecCrateLoops /\ [][NextCrateLoops]_vars

\* Downloader.adownload_verify_hash for every value of its parameters:
\* cached is drawn from BOOLEAN (crate.py 606 leaves it at its default).
InitVerifyHash ==
    /\ dl_engine = "crate"
    /\ dl_command = "download"
    /\ dl_keep_going \in BOOLEAN
    /\ dl_assume_ok \in BOOLEAN
    /\ nItems \in 1 .. MaxItems
    /\ cachedOf \in [1 .. nItems -> BOOLEAN]
    /\ dl_with_sig = FALSE
    /\ warn_signature = FALSE
    /\ num_jobs \in {downloader_num_jobs(n) : n \in ArgsNumJobs}
    /\ pathOf = [i \in 1 .. nItems |-> i]
    /\ specOf = [i \in 1 .. nItems |-> 1]
    /\ dfile \in [1 .. nItems -> FileContents \cup {Absent}]
    /\ dhash = [i \in 1 .. nItems |-> Absent]
    /\ dsig = [i \in 1 .. nItems |-> FALSE]
    /\ DownloadIdleFields

InitSpecVerifyHash ==
    /\ InitVerifyHash /\ IdleFetch /\ IdleArchive /\ IdleRange /\ IdleMain
    /\ IdleMirror

NextVerifyHash ==
    \/ start_soon
    \/ adownload_verify_hash_begin
    \/ adownload_verify_hash_end
    \/ process_crates_end
    \/ keyboard_interrupt
    \/ run_finally

SpecVerifyHash == InitSpecVerifyHash /\ [][NextVerifyHash]_vars

InitSpecPrune ==
    /\ InitPrune
    /\ IdleFetch /\ IdleArchive /\ IdleDownload /\ IdleRange /\ IdleMain
    /\ IdleChannel /\ IdleRustup /\ IdleFilter /\ IdleCall

SpecPrune == InitSpecPrune /\ [][NextPrune]_vars

InitSpecChannel ==
    /\ InitChannel
    /\ IdleFetch /\ IdleArchive /\ IdleDownload /\ IdleRange /\ IdleMain
    /\ IdlePrune /\ IdleRustup /\ IdleFilter /\ IdleCall

SpecChannel == InitSpecChannel /\ [][NextChannel]_vars

InitSpecRustup ==
    /\ InitRustup
    /\ IdleFetch /\ IdleArchive /\ IdleDownload /\ IdleRange /\ IdleMain
    /\ IdlePrune /\ IdleChannel /\ IdleFilter /\ IdleCall

SpecRustup == InitSpecRustup /\ [][NextRustup]_vars

InitSpecFilter ==
    /\ InitFilter
    /\ IdleFetch /\ IdleArchive /\ IdleDownload /\ IdleMain
    /\ IdlePrune /\ IdleChannel /\ IdleRustup /\ IdleCall

SpecFilter == InitSpecFilter /\ [][NextFilter]_vars

InitSpecFilterSeq ==
    /\ InitFilterSeq
    /\ IdleFetch /\ IdleArchive /\ IdleDownload /\ IdleMain
    /\ IdlePrune /\ IdleChannel /\ IdleRustup /\ IdleCall

NextFilterSeq == run_setup \/ filter_ask

SpecFilterSeq == InitSpecFilterSeq /\ [][NextFilterSeq]_vars

\* Every other part of the program is idle while a function is called.
IdleButCall ==
    /\ IdleFetch /\ IdleArchive /\ IdleDownload /\ IdleRange /\ IdleMain
    /\ IdlePrune /\ IdleChannel /\ IdleRustup /\ IdleFilter

InitSpecPrefix == InitPrefix /\ IdleButCall

NextPrefix == crate_prefix_call

SpecPrefix == InitSpecPrefix /\ [][NextPrefix]_vars

\* crate pack with the failures of its writes.  The target archive of an
\* earlier pack may be there.
PackRaises == {"OSError", "KeyboardInterrupt"}

OldArchive == Tar(<<Member(ARCHIVE_FORMAT, <<"1", "\n">>)>>)

InitPackAbort ==
    /\ engine = "crate"
    /\ origin = "pack"
    /\ crates_config \in CrateConfigs
    /\ rcv_config = [prefix |-> "lower", archive_prefix |-> "mixed"]
    /\ pack_keep_going \in BOOLEAN
    /\ unpack_keep_going = FALSE
    /\ with_sig = FALSE
    /\ \E T \in SubsetsUpTo(Crates, MaxPack) :
          /\ packList = SortedCrates(T)
          /\ sndDisk \in DisksFor(T, crates_config_prefix_style(crates_config))
    /\ archive \in {NoTar, OldArchive}
    /\ ArchiveIdleFields

\* common.py 209-215: an exception or KeyboardInterrupt inside the `with`
\* body (a failed write of tar_f.add, Ctrl-C) reaches the except clause:
\* tar_f.close(), then the .tmp archive is unlinked and the exception is
\* raised again; when tar_f.close() raises too, the unlink is not reached.
pack_raises ==
    /\ engine = "crate"
    /\ apc \in {"pack_format", "pack_bundle", "pack_crates"}
    /\ \E e \in PackRaises, close_raises \in BOOLEAN :
          /\ aerror' = IF close_raises THEN "OSError" ELSE e
          /\ tarTmp' = IF close_raises THEN tarTmp ELSE NoTar
    /\ apc' = "pack_failed"
    /\ UNCHANGED <<ArchiveInputs, archive, packIdx, num_good_crates,
                   num_bad_crates, UnpackState>>
    /\ UNCHANGED OthersArchive

\* common.py 216: the tar_f.close() that follows the body is outside the
\* try; when it raises or is interrupted nothing removes the .tmp archive.
pack_close_raises ==
    /\ engine = "crate" /\ apc = "pack_crates"
    /\ packIdx > Len(packList)
    /\ \E e \in PackRaises : aerror' = e
    /\ apc' = "pack_failed"
    /\ UNCHANGED <<ArchiveInputs, tarTmp, archive, packIdx, num_good_crates,
                   num_bad_crates, UnpackState>>
    /\ UNCHANGED OthersArchive

NextPackAbort ==
    \/ cmd_pack_no_crates
    \/ cmd_pack_open
    \/ pack_add_format
    \/ pack_add_bundle
    \/ pack_add_crate
    \/ pack_close
    \/ pack_raises
    \/ pack_close_raises

InitSpecPackAbort ==
    /\ InitPackAbort /\ IdleDownload /\ IdleFetch /\ IdleRange /\ IdleMain
    /\ IdleMirror

SpecPackAbort == InitSpecPackAbort /\ [][NextPackAbort]_vars

\* ---------------------------------------------------------------------
\* Hash sidecar text (integrity.py 35-76), character by character.

HashLen == 64
HexChars == {"0", "1", "2", "3", "4", "5", "6", "7", "8", "9",
             "a", "b", "c", "d", "e", "f", "A", "B", "C", "D", "E", "F"}
Rep(c, n) == [i \in 1..n |-> c]
HasNewline(s) == \E i \in 1..Len(s) : s[i] = "\n"

ParseError == [ok |-> FALSE, error |-> "ValueError"]
Parsed(hash, name) == [ok |-> TRUE, hash |-> hash, name |-> name]

\* integrity.py 35-50: one trailing newline is dropped, then
\* ^([0-9a-fA-F]{64}) [ *](.*)$ is searched; "." matches no newline and
\* "$" matches at the end or before a newline that ends the text.
parse_hash_text_AnyDelim(hash_text) ==
    LET n == Len(hash_text)
        text == IF n > 0 /\ hash_text[n] = "\n" THEN SubSeq(hash_text, 1, n - 1)
                ELSE hash_text
        m == Len(text)
        rest == SubSeq(text, HashLen + 2, m)
        r == Len(rest)
    IN  IF m < HashLen + 1 THEN ParseError
        ELSE IF \E i \in 1..HashLen : text[i] \notin HexChars THEN ParseError
        ELSE IF text[HashLen + 1] # " " THEN ParseError
        ELSE IF ~HasNewline(rest) THEN Parsed(SubSeq(text, 1, HashLen), rest)
        ELSE IF rest[r] = "\n" /\ ~HasNewline(SubSeq(rest, 1, r - 1))
             THEN Parsed(SubSeq(text, 1, HashLen), SubSeq(rest, 1, r - 1))
        ELSE ParseError

parse_hash_text(hash_text) ==
    LET n == Len(hash_text)
        text == IF n > 0 /\ hash_text[n] = "\n" THEN SubSeq(hash_text, 1, n - 1)
                ELSE hash_text
        m == Len(text)
        rest == SubSeq(text, HashLen + 3, m)
        r == Len(rest)
    IN  IF m < HashLen + 2 THEN ParseError
        ELSE IF \E i \in 1..HashLen : text[i] \notin HexChars THEN ParseError
        ELSE IF text[HashLen + 1] # " " THEN ParseError
        ELSE IF text[HashLen + 2] \notin {" ", "*"} THEN ParseError
        ELSE IF ~HasNewline(rest) THEN Parsed(SubSeq(text, 1, HashLen), rest)
        ELSE IF rest[r] = "\n" /\ ~HasNewline(SubSeq(rest, 1, r - 1))
             THEN Parsed(SubSeq(text, 1, HashLen), SubSeq(rest, 1, r - 1))
        ELSE ParseError

\* integrity.py 53-54
format_hash_text(hash, name) == hash \o <<" ", "*">> \o name \o <<"\n">>

\* integrity.py 57-58: Path.read_text decodes with universal newlines, so
\* "\r\n" and a lone "\r" are read as "\n".
RECURSIVE read_text(_)
read_text(bytes) ==
    IF bytes = <<>> THEN <<>>
    ELSE IF bytes[1] = "\r"
         THEN IF Len(bytes) > 1 /\ bytes[2] = "\n"
              THEN <<"\n">> \o read_text(SubSeq(bytes, 3, Len(bytes)))
              ELSE <<"\n">> \o read_text(Tail(bytes))
    ELSE <<bytes[1]>> \o read_text(Tail(bytes))

read_hash_file(bytes) == parse_hash_text(read_text(bytes))

\* integrity.py 72-76: the bytes written to path + ".sha256" for a path
\* whose last component is name.
write_hash_file_for(name, hash) == format_hash_text(hash, name)

MaxSidecarName == 2
SidecarNameChars == {"n", ".", "*", " ", "\n", "\r"}
SidecarNames == SeqsUpTo(SidecarNameChars, MaxSidecarName)
Digests == {Rep("0", HashLen), Rep("a", HashLen - 1) \o <<"F">>,
            <<"7", "b">> \o Rep("C", HashLen - 2)}
HashCandidates ==
    Digests \cup {Rep("a", HashLen - 1), Rep("a", HashLen + 1),
                  <<"z">> \o Rep("a", HashLen - 1),
                  Rep("a", HashLen - 1) \o <<"g">>}
Delims == {<<" ", " ">>, <<" ", "*">>, <<" ">>, <<"*">>, <<" ", "\t">>}
Trailers == {<<>>, <<"\n">>}

InitSidecar ==
    \/ \E name \in SidecarNames \ {<<>>}, hash \in Digests :
          Calling([op |-> "write_read", name |-> name, hash |-> hash])
    \/ \E hash \in HashCandidates, delim \in Delims,
          name \in SidecarNames, trailer \in Trailers :
          Calling([op |-> "parse", hash |-> hash, delim |-> delim,
                   name |-> name, trailer |-> trailer])

write_read_call ==
    /\ "op" \in DOMAIN call_args
    /\ call_args.op = "write_read"
    /\ Returns(read_hash_file(write_hash_file_for(call_args.name, call_args.hash)))

parse_call ==
    /\ "op" \in DOMAIN call_args
    /\ call_args.op = "parse"
    /\ Returns(parse_hash_text(call_args.hash \o call_args.delim
                               \o call_args.name \o call_args.trailer))

InitSpecSidecar == InitSidecar /\ IdleButCall
NextSidecar == write_read_call \/ parse_call
SpecSidecar == InitSpecSidecar /\ [][NextSidecar]_vars

\* ---------------------------------------------------------------------
\* verify_hash and verify on sidecar bytes (integrity.py 79-107).

\* error.py: the classes derived from error.Error.
ErrorHierarchy == {"UsageError", "AbortError", "IntegrityError",
                   "MissingFileError", "MissingDirectoryError",
                   "DownloadError", "UnexpectedArchiveMemberError", "GitError"}

\* integrity.py 13-33: hexdigest() is 64 lower-case hex characters.
hash_file(content) ==
    IF content = "p" THEN Rep("0", HashLen) ELSE <<"7", "b">> \o Rep("c", HashLen - 2)

NoSidecar == <<"absent">>

\* integrity.py 79-92
integrity_verify_hash(content, expected_hash) ==
    IF content = Absent THEN "MissingFileError"
    ELSE IF hash_file(content) # expected_hash THEN "IntegrityError"
    ELSE "ok"

\* integrity.py 95-107: read_hash_file lets the ValueError of
\* parse_hash_text through.
integrity_verify(content, sidecar) ==
    IF sidecar = NoSidecar THEN "MissingFileError"
    ELSE LET parsed == read_hash_file(sidecar)
         IN  IF ~parsed.ok THEN parsed.error
             ELSE integrity_verify_hash(content, parsed.hash)

ExpectedHashes == Digests \cup {hash_file(c) : c \in FileContents}
SidecarTexts ==
    {hash \o delim \o <<"n">> \o trailer :
        hash \in HashCandidates \cup ExpectedHashes, delim \in Delims,
        trailer \in Trailers}

InitVerify ==
    \E content \in FileContents \cup {Absent} :
        \/ \E expected \in ExpectedHashes :
              Calling([op |-> "verify_hash", content |-> content,
                       expected |-> expected])
        \/ \E sidecar \in SidecarTexts \cup {NoSidecar} :
              Calling([op |-> "verify", content |-> content,
                       sidecar |-> sidecar])

verify_hash_call ==
    /\ "op" \in DOMAIN call_args
    /\ call_args.op = "verify_hash"
    /\ Returns([error |-> integrity_verify_hash(call_args.content,
                                                 call_args.expected)])

verify_call ==
    /\ "op" \in DOMAIN call_args
    /\ call_args.op = "verify"
    /\ Returns([error |-> integrity_verify(call_args.content,
                                            call_args.sidecar)])

InitSpecVerify == InitVerify /\ IdleButCall
NextVerify == verify_hash_call \/ verify_call
SpecVerify == InitSpecVerify /\ [][NextVerify]_vars

\* ---------------------------------------------------------------------
\* Manifest.available_target_types (manifest.py 130-225).

PackageNames == {"rustc", "rust-std", "cargo"}
ManifestTargets == {"t1", "t2"}
RelPaths == {"r1", "r2"}
Packages == [name : PackageNames, target : ManifestTargets]
Unavailable == [available |-> FALSE, rel_path |-> "none"]
PackageDetails ==
    {Unavailable} \cup {[available |-> TRUE, rel_path |-> r] : r \in RelPaths}
Manifests == [Packages -> PackageDetails]

\* manifest.py 130-149 with targets = None and rel_path_is_present = None
gen_available_packages(manifest) ==
    {p \in DOMAIN manifest : manifest[p].available}

\* manifest.py 160-174, called without rel_path_is_present
available_targets(manifest) ==
    {p.target : p \in gen_available_packages(manifest)} \ {"*"}

\* manifest.py 183-188
target_packages(manifest, target) ==
    {p \in gen_available_packages(manifest) : p.target = target}

rel_path_targets(manifest, rel_path) ==
    {p.target : p \in {q \in gen_available_packages(manifest) :
                          manifest[q].rel_path = rel_path}}

\* manifest.py 199-214
is_present(manifest, present, p) == manifest[p].rel_path \in present

have_all_rel_paths(manifest, present, target) ==
    \A p \in target_packages(manifest, target) : is_present(manifest, present, p)

have_unique_rel_path(manifest, present, target) ==
    \E p \in target_packages(manifest, target) :
        /\ is_present(manifest, present, p)
        /\ Cardinality(rel_path_targets(manifest, manifest[p].rel_path)) = 1

have_name(manifest, present, target, name) ==
    \E p \in target_packages(manifest, target) :
        is_present(manifest, present, p) /\ p.name = name

\* manifest.py 216-222
target_type(manifest, present, target) ==
    IF have_name(manifest, present, target, "rustc") THEN "native-target"
    ELSE IF have_name(manifest, present, target, "rust-std") THEN "cross-target"
    ELSE "minimal"

\* manifest.py 176-225; target_list is the targets argument, or
\* available_targets() when the argument is None.
available_target_types_Any(manifest, target_list, present) ==
    LET included == {t \in target_list : target_packages(manifest, t) # {}}
    IN  [t \in included |-> target_type(manifest, present, t)]

available_target_types(manifest, target_list, present) ==
    LET included ==
            {t \in target_list :
                /\ target_packages(manifest, t) # {}
                /\ \/ have_unique_rel_path(manifest, present, t)
                   \/ have_all_rel_paths(manifest, present, t)}
    IN  [t \in included |-> target_type(manifest, present, t)]

InitTargetTypes ==
    \E manifest \in Manifests, present \in SUBSET RelPaths,
       given \in BOOLEAN, targets \in SUBSET ManifestTargets :
        /\ ~given => targets = {}
        /\ Calling([manifest |-> manifest, present |-> present,
                    given |-> given, targets |-> targets])

available_target_types_call ==
    /\ "manifest" \in DOMAIN call_args
    /\ Returns([types |->
          available_target_types(
              call_args.manifest,
              IF call_args.given THEN call_args.targets
              ELSE available_targets(call_args.manifest),
              call_args.present)])

InitSpecTargetTypes == InitTargetTypes /\ IdleButCall
NextTargetTypes == available_target_types_call
SpecTargetTypes == InitSpecTargetTypes /\ [][NextTargetTypes]_vars

\* ---------------------------------------------------------------------
\* cli.run and cli.main (cli.py 179-214).

CliCommands == {"None", "crate", "rustup", "toolchain", "serve"}
\* What Main(args).run() of the chosen operation does: return, or raise.
RunOutcomes == {"ok", "KeyboardInterrupt"} \cup ErrorHierarchy

\* cli.py 185-199: the exception, if any, that the try body raises.
run_raises(cmd, outcome) ==
    IF cmd = "None" THEN "UsageError" ELSE outcome

\* cli.py 179-210: the value run() returns and what it prints to stderr.
run(readme, cmd, outcome) ==
    IF readme THEN [returns |-> 0, eprint |-> "none"]
    ELSE IF run_raises(cmd, outcome) \in ErrorHierarchy
         THEN [returns |-> 1, eprint |-> run_raises(cmd, outcome)]
    ELSE IF run_raises(cmd, outcome) = "KeyboardInterrupt"
         THEN [returns |-> 0, eprint |-> "Keyboard interrupt"]
    ELSE [returns |-> 0, eprint |-> "none"]

\* cli.py 213-214: sys.exit(run())
main(readme, cmd, outcome) ==
    [exit_code |-> run(readme, cmd, outcome).returns,
     eprint |-> run(readme, cmd, outcome).eprint]

InitCli ==
    \E readme \in BOOLEAN, cmd \in CliCommands, outcome \in RunOutcomes :
        Calling([readme |-> readme, cmd |-> cmd, outcome |-> outcome])

main_call ==
    /\ "cmd" \in DOMAIN call_args
    /\ Returns(main(call_args.readme, call_args.cmd, call_args.outcome))

InitSpecCli == InitCli /\ IdleButCall
NextCli == main_call
SpecCli == InitSpecCli /\ [][NextCli]_vars

\* ---------------------------------------------------------------------
\* Where unpack writes one archive member (crate.py 779-841,
\* toolchain.py 630-641, rustup.py 412-423, common.py 219-224,
\* dist.py 89-90).  A location is the list of path components below "/".

IsDotDot(seg) == seg = <<"..">> \/ seg = <<".", ".">>

\* os.path.realpath of segs taken relative to base, without symlinks.
RECURSIVE Resolve(_, _)
Resolve(base, segs) ==
    IF segs = <<>> THEN base
    ELSE LET s == Head(segs)
             next == IF s = <<>> \/ s = <<".">> THEN base
                     ELSE IF IsDotDot(s)
                          THEN IF base = <<>> THEN base ELSE Front(base)
                     ELSE Append(base, s)
         IN  Resolve(next, Tail(segs))

IsAbsolute(path) == path # <<>> /\ path[1] = "/"

Under(location, root) ==
    /\ Len(location) >= Len(root)
    /\ SubSeq(location, 1, Len(root)) = root

\* The directory romt runs in, and the roots given by the defaults
\* --dest dist / --dest rustup, CRATES_ROOT crates, --bundle-path origin.bundle.
Cwd == << <<"w">> >>
DestRoot(e) ==
    Cwd \o << IF e = "toolchain" THEN <<"dist">>
              ELSE IF e = "rustup" THEN <<"rustup">> ELSE <<"crates">> >>
BundleLocation == Cwd \o << <<"origin.bundle">> >>

NotWritten == [error |-> "none", wrote |-> FALSE, at |-> <<>>]
Raised(e) == [error |-> e, wrote |-> FALSE, at |-> <<>>]
WrittenAt(location) == [error |-> "none", wrote |-> TRUE, at |-> location]

\* TarFile.extract(tar_info, path) for a regular file.  With
\* tarfile.data_filter (common.py 222-223) leading slashes are stripped and
\* a target outside path is refused; without it the name is joined to path
\* as it is.
tar_extract_Unfiltered(name, path, data_filter) ==
    WrittenAt(IF IsAbsolute(name) THEN Resolve(<<>>, SplitSlash(name))
              ELSE Resolve(path, SplitSlash(name)))

tar_extract(name, path, data_filter) ==
    IF data_filter
    THEN LET target == Resolve(path, SplitSlash(name))
         IN  IF Under(target, path) THEN WrittenAt(target)
             ELSE Raised("OutsideDestinationError")
    ELSE WrittenAt(IF IsAbsolute(name) THEN Resolve(<<>>, SplitSlash(name))
                   ELSE Resolve(path, SplitSlash(name)))

\* dist.py 89-90: Path(dest) / rel_path; an absolute rel_path replaces dest.
dest_path_from_rel_path(e, rel_path) ==
    IF IsAbsolute(rel_path) THEN rel_path
    ELSE DestRoot(e)[Len(DestRoot(e))] \o <<"/">> \o rel_path

\* toolchain.py 633-640, rustup.py 415-422
dist_extract_member(e, name, data_filter) ==
    IF ~StartsWith(name, unpack_prefix(e))
    THEN Raised("UnexpectedArchiveMemberError")
    ELSE tar_extract(
             dest_path_from_rel_path(e, DropFirst(name, Len(pack_prefix(e)))),
             Cwd, data_filter)

\* crate.py 782-841
crate_extract_member(name, style, archive_style, data_filter) ==
    IF name = ARCHIVE_FORMAT THEN NotWritten
    ELSE IF name = INDEX_BUNDLE_PACKED_NAME THEN WrittenAt(BundleLocation)
    ELSE IF StartsWith(name, crates_prefix)
    THEN LET nv == unpack_crate_checked(name, archive_style)
         IN  IF nv = NoNameVersion THEN Raised("AbortError")
             ELSE tar_extract(unpack_crate_dest(nv, style, archive_style),
                              DestRoot("crate"), data_filter)
    ELSE Raised("AbortError")

MaxTailSegs == 3
TailSegs == {<<"..">>, <<"x">>, <<>>}
RECURSIVE JoinSlash(_)
JoinSlash(segs) ==
    IF segs = <<>> THEN <<>>
    ELSE IF Len(segs) = 1 THEN segs[1]
    ELSE segs[1] \o <<"/">> \o JoinSlash(Tail(segs))
Tails == {JoinSlash(segs) : segs \in SeqsUpTo(TailSegs, MaxTailSegs) \ {<<>>}}
DistMemberNames ==
    {unpack_prefix(e) \o t : e \in DistEngines, t \in Tails}
        \cup {<<"..", "/", "x">>}
TraversalCrateNames ==
    { <<".", ".", "a", "b">>, <<".", ".", ".", ".">>, <<"a", "b", ".", ".">>,
      <<".", ".">>, <<"A", "b", "C", "d">> }
CrateMemberNames ==
    {crates_prefix \o crate_rel_path_from_name_version(n, <<"1">>, s) :
        n \in TraversalCrateNames, s \in PrefixStyle}
        \cup {crates_prefix \o t \o <<"/", "a", "/", "a", "-", "1", ".crate">> :
                 t \in Tails}
        \cup {ARCHIVE_FORMAT, INDEX_BUNDLE_PACKED_NAME, <<"/", "x">>}

InitExtract ==
    \E data_filter \in BOOLEAN :
        \/ \E e \in DistEngines, name \in DistMemberNames :
              Calling([engine |-> e, member |-> name,
                       data_filter |-> data_filter,
                       style |-> LOWER, archive_style |-> MIXED])
        \/ \E name \in CrateMemberNames, style \in PrefixStyle,
              archive_style \in PrefixStyle :
              Calling([engine |-> "crate", member |-> name,
                       data_filter |-> data_filter,
                       style |-> style, archive_style |-> archive_style])

dist_extract_call ==
    /\ "member" \in DOMAIN call_args
    /\ call_args.engine \in DistEngines
    /\ Returns(dist_extract_member(call_args.engine, call_args.member,
                                   call_args.data_filter))

crate_extract_call ==
    /\ "member" \in DOMAIN call_args
    /\ call_args.engine = "crate"
    /\ Returns(crate_extract_member(call_args.member, call_args.style,
                                    call_args.archive_style,
                                    call_args.data_filter))

InitSpecExtract == InitExtract /\ IdleButCall
NextExtract == dist_extract_call \/ crate_extract_call
SpecExtract == InitSpecExtract /\ [][NextExtract]_vars

\* ---------------------------------------------------------------------
\* The cached crate lists of one crate run (crate.py 1197-1230): the
\* commands of the command line run on an index with START given as `mark`
\* or as another branch of the index.
CacheCommandWords ==
    {"pull", "download", "pack", "mark", "list", "config", "update", "export",
     "import"}

InitCache ==
    /\ args_commands \in SeqsUpTo(CacheCommandWords, MaxCommands)
    /\ end_valid = TRUE
    /\ args_end \in {"HEAD", "master"}
    /\ args_prefix = LOWER
    /\ fs_case_insensitive = FALSE
    /\ args_keep_going \in BOOLEAN
    /\ main_start \in {"mark", "bundle/master"}
    /\ crates_cache = NoCache
    /\ config_toml = LOWER
    /\ index_dir \in BOOLEAN
    /\ head_ref = "working"
    /\ refs = [b \in Branches |->
                  IF ~index_dir \/ b = "origin_master" THEN Absent
                  ELSE IF b = "working" THEN "c_head"
                  ELSE "c_old"]
    /\ config_json = Absent
    /\ head_config = Absent
    /\ MainIdleFields

InitSpecCache ==
    /\ InitCache /\ IdleFetch /\ IdleArchive /\ IdleDownload /\ IdleRange
    /\ IdleMirror

NextCache ==
    \/ get_commands
    \/ run_alias
    \/ cmd_pull
    \/ cmd_mark
    \/ cmd_config
    \/ cmd_pack
    \/ cmd_download
    \/ cmd_other
    \/ run_end

SpecCache == InitSpecCache /\ [][NextCache]_vars

-----------------------------------------------------------------------------
\* C3: in every reachable state of fetch(url, dest), a crash at any step
\* included, dest is absent or holds the complete content of one finished
\* fetch: bytes go to the .<basename>.tmp sibling only, and dest appears only
\* by the rename of the completely written tmp file.
C3_DestAbsentOrComplete ==
    files[dest_path] = Absent \/ files[dest_path] \in finished

\* A fetch is interrupted in the middle of the transfer, after an earlier
\* fetch of the same destination had finished: a partial tmp file is left.
C3_Witness ==
    /\ fpc = "interrupted"
    /\ finished # {}
    /\ files[tmp_path_for(dest_path)] # Absent
    /\ Len(files[tmp_path_for(dest_path)]) > 0
    /\ Len(files[tmp_path_for(dest_path)]) < Len(body)


-----------------------------------------------------------------------------
UnpackStates == {"unpack", "unpacked", "unpack_failed"}

IsRegular(i) == ~archive.members[i].isdir

\* C1 (as amended): after a download command (crate with keep_going not
\* set, toolchain or rustup, under every combination of cached and assume_ok)
\* returns success, every artifact file it wrote at its destination path has
\* content whose SHA-256 equals the artifact's expected digest: the index
\* cksum for a crate, the sidecar digest for a toolchain or rustup file.
C1_ExpectedDigest(i) == IF dl_engine = "crate" THEN "hp" ELSE dhash[i]

C1_WrittenFilesVerify ==
    \A i \in written :
        /\ dfile[i] \in {"p", "q"}
        /\ (IF dfile[i] = "p" THEN "hp" ELSE "hq") = C1_ExpectedDigest(i)

C2_Packed ==
    {c \in SeqToSet(packList) :
        crate_rel_path_from_name_version(c.name, c.version,
            crates_config_prefix_style(crates_config)) \in DOMAIN sndDisk}

C2_Expected ==
    LET rcv(c) == crate_rel_path_from_name_version(c.name, c.version,
                      IF rcv_config.prefix = "mixed" THEN MIXED ELSE LOWER)
        snd(c) == crate_rel_path_from_name_version(c.name, c.version,
                      IF crates_config.prefix = "mixed" THEN MIXED ELSE LOWER)
    IN  [q \in {rcv(c) : c \in C2_Packed} |->
            sndDisk[snd(CHOOSE c \in C2_Packed : rcv(c) = q)]]

C2_PackUnpackRoundTrip ==
    (engine = "crate" /\ origin = "pack" /\ apc = "unpacked")
        => rcvDisk = C2_Expected

C2_Witness ==
    /\ engine = "crate" /\ origin = "pack" /\ apc = "unpacked"
    /\ rcv_config.prefix # crates_config.prefix
    /\ crates_config.archive_prefix = "lower"
    /\ Cardinality(DOMAIN rcvDisk) = 2
    /\ DOMAIN rcvDisk # DOMAIN sndDisk

C5_LateFormat(i) ==
    /\ IsRegular(i)
    /\ archive.members[i].name = <<"ARCHIVE_FORMAT">>
    /\ \E j \in 1 .. i - 1 : IsRegular(j)

C5_NoFormat ==
    \A i \in 1 .. Len(archive.members) :
        archive.members[i].name # <<"ARCHIVE_FORMAT">>

C6_IsCratesMember(i) ==
    /\ IsRegular(i)
    /\ archive.members[i].name # <<"ARCHIVE_FORMAT">>
    /\ archive.members[i].name
           # <<"git", "/", "crates.io-index", "/", "origin.bundle">>
    /\ StartsWith(archive.members[i].name, <<"crates", "/">>)

C6_Canonical(i) ==
    LET nv == crate_name_version_from_rel_path(archive.members[i].name)
    IN  /\ nv # NoNameVersion
        /\ archive.members[i].name =
               <<"crates", "/">> \o crate_rel_path_from_name_version(
                   nv.name, nv.version, archive_prefix_style)

RECURSIVE C6_Extracted(_)
C6_Extracted(n) ==
    IF n = 0 THEN EmptyDisk
    ELSE IF C6_IsCratesMember(n)
    THEN LET nv == crate_name_version_from_rel_path(archive.members[n].name)
         IN  Put(C6_Extracted(n - 1),
                 crate_rel_path_from_name_version(nv.name, nv.version,
                     IF rcv_config.prefix = "mixed" THEN MIXED ELSE LOWER),
                 archive.members[n].payload)
    ELSE C6_Extracted(n - 1)

C6_NonCanonicalMemberAborts ==
    (engine = "crate" /\ apc \in UnpackStates) =>
        /\ \A i \in 1 .. Len(archive.members) :
              (C6_IsCratesMember(i) /\ ~C6_Canonical(i)) =>
                  (uIdx <= i /\ apc # "unpacked")
        /\ rcvDisk = C6_Extracted(uIdx - 1)

C6_Witness ==
    /\ engine = "crate" /\ apc = "unpack_failed"
    /\ Len(archive.members) = 3
    /\ uIdx = 3
    /\ archive.members[1].payload = <<"2", "\n">>
    /\ archive_prefix_style = LOWER
    /\ C6_IsCratesMember(2) /\ C6_Canonical(2)
    /\ C6_IsCratesMember(3) /\ ~C6_Canonical(3)
    /\ crate_name_version_from_rel_path(archive.members[3].name)
           # NoNameVersion
    /\ Cardinality(DOMAIN rcvDisk) = 1

\* C7: a member outside the expected roots aborts unpack when keep_going is
\* not set; when keep_going is set the member is skipped and unpack goes on
\* with the members after it, so no unpack that was told to keep going ends
\* on such a member.
C7_OutsideRoots(i) ==
    /\ IsRegular(i)
    /\ IF engine = "crate"
       THEN /\ archive.members[i].name # <<"ARCHIVE_FORMAT">>
            /\ archive.members[i].name
                   # <<"git", "/", "crates.io-index", "/", "origin.bundle">>
            /\ ~StartsWith(archive.members[i].name, <<"crates", "/">>)
       ELSE IF engine = "toolchain"
       THEN ~StartsWith(archive.members[i].name, <<"dist", "/">>)
       ELSE ~StartsWith(archive.members[i].name,
                        <<"rustup", "/", "archive", "/">>)

C7_Original ==
    (/\ apc = "unpack_failed"
     /\ uIdx <= Len(archive.members)
     /\ C7_OutsideRoots(uIdx))
        => (~unpack_keep_going /\ aerror # NoError)

\* C8: for a changed index blob at a canonical crates-index path (1/x, 2/xx,
\* 3/x/xxx, xx/xx/xxxx+) the delta reports as added exactly the
\* filter-matching versions of end that are absent from start or have another
\* hash there, and as removed exactly the filter-matching versions of start
\* that are absent from end; a blob at another path contributes nothing, and
\* no version is both added and removed.
C8_Pattern(str) ==
    CASE str = <<"a", "b", "c", "d">> ->
             [name |-> <<"a", "b", "c", "d">>, vers |-> <<"*">>]
      [] str = <<"a", "b", "c", "d", "@", "1", ".", "0">> ->
             [name |-> <<"a", "b", "c", "d">>, vers |-> <<"1", ".", "0">>]
      [] str = <<"a", "*", "@", "1", ".", "?">> ->
             [name |-> <<"a", "*">>, vers |-> <<"1", ".", "?">>]
      [] str = <<"@", "1", ".", "1">> ->
             [name |-> <<"*">>, vers |-> <<"1", ".", "1">>]

C8_FilterMatches(lower_name, version) ==
    \/ filter_strs = <<>>
    \/ \E k \in 1 .. Len(filter_strs) :
          /\ fnmatchcase(lower_name, C8_Pattern(filter_strs[k]).name)
          /\ fnmatchcase(version, C8_Pattern(filter_strs[k]).vers)

C8_CanonicalPaths ==
    { <<"1", "/", "a">>,
      <<"2", "/", "A", "B">>,
      <<"3", "/", "a", "/", "a", "b", "c">>,
      <<"a", "b", "/", "c", "d", "/", "a", "b", "c", "d">> }

C8_LowerName ==
    CASE blob_path = <<"2", "/", "A", "B">> -> <<"a", "b">>
      [] blob_path = <<"1", "/", "a", "b">> -> <<"a", "b">>
      [] blob_path = <<"1", "/", "a">> -> <<"a">>
      [] blob_path \in { <<"3", "/", "a", "/", "a", "b", "c">>,
                         <<"a", "b", "/", "c", "d", "/", "a", "b", "c">> } ->
             <<"a", "b", "c">>
      [] OTHER -> <<"a", "b", "c", "d">>

C8_Start ==
    IF cli_start = "0" THEN {}
    ELSE {start_blob[i] : i \in 1 .. Len(start_blob)}

C8_End == {end_blob[i] : i \in 1 .. Len(end_blob)}

C8_DeltaOfBlob ==
    rpc = "done" =>
        /\ IF blob_path \in C8_CanonicalPaths
           THEN /\ crates_added =
                      {c \in C8_End :
                          /\ C8_FilterMatches(C8_LowerName, c.vers)
                          /\ ~\E o \in C8_Start :
                                 o.vers = c.vers /\ o.cksum = c.cksum}
                /\ crates_removed =
                      {c \in C8_Start :
                          /\ C8_FilterMatches(C8_LowerName, c.vers)
                          /\ ~\E n \in C8_End : n.vers = c.vers}
           ELSE crates_added = {} /\ crates_removed = {}
        /\ {c.vers : c \in crates_added} \cap {c.vers : c \in crates_removed}
               = {}

C8_Witness ==
    /\ rpc = "done"
    /\ blob_path = <<"2", "/", "A", "B">>
    /\ Len(filter_strs) = 2
    /\ cli_start = "v1"
    /\ \E c \in crates_added :
          \E o \in C8_Start : o.vers = c.vers /\ o.cksum # c.cksum
    /\ crates_removed # {}
    /\ Len(end_blob) = 1

\* C9 (as amended): when START is the sentinel `0`, or names a ref that does
\* not exist while allow-missing-start is in force (it is implied when START
\* is empty or not given, and START then defaults to `mark`), the delta is
\* every filter-matching crate version present at END reported as added and
\* nothing reported as removed.  An empty START with an existing `mark` gives
\* the delta from `mark`.
C9_Everything ==
    /\ crates_removed = {}
    /\ crates_added =
          IF blob_path = <<"a", "b", "/", "c", "d", "/", "a", "b", "c", "d">>
          THEN {end_blob[i] : i \in
                   {k \in 1 .. Len(end_blob) :
                       \/ filter_strs = <<>>
                       \/ end_blob[k].vers = <<"1", ".", "1">>}}
          ELSE {}

C9_StartOfRepoDelta ==
    (/\ rpc # "init"
     /\ \/ cli_start = "0"
        \/ allow_missing_start /\ ~start_exists)
        => (rpc = "done" => C9_Everything) /\ rpc # "error"

\* C9 (original): when START is empty, is `0`, or (with allow-missing-start)
\* names a ref that does not exist, the delta is every filter-matching crate
\* version present at END as added and nothing as removed.
C9_Original ==
    (/\ rpc = "done"
     /\ \/ cli_start = ""
        \/ cli_start = "0"
        \/ allow_missing_start /\ ~start_exists)
        => C9_Everything

C9_Witness ==
    /\ rpc = "done"
    /\ cli_start = NoneStart
    /\ args_start = "mark" /\ allow_missing_start /\ ~start_exists
    /\ Len(start_blob) = 2
    /\ Len(end_blob) = 2
    /\ Len(filter_strs) = 1
    /\ blob_path = <<"a", "b", "/", "c", "d", "/", "a", "b", "c", "d">>
    /\ Cardinality(crates_added) = 1


-----------------------------------------------------------------------------
\* The steps that the command line stands for: every alias is replaced, where
\* it stands, by its steps.
C10_StepsOf(command) ==
    IF command = "update" THEN <<"pull", "prune", "download", "mark">>
    ELSE IF command = "export"
    THEN <<"pull", "prune", "download", "pack", "mark">>
    ELSE IF command = "import"
    THEN <<"unpack", "pull", "prune", "verify", "mark">>
    ELSE <<command>>

RECURSIVE C10_Expand(_)
C10_Expand(s) ==
    IF s = <<>> THEN <<>>
    ELSE C10_StepsOf(Head(s)) \o C10_Expand(Tail(s))

C10_Called == [i \in 1 .. Len(executed) |-> executed[i].cmd]

\* C10: the handlers called by a crate run are, in order, a prefix of the
\* command line with every alias (update = pull prune download mark,
\* export = pull prune download pack mark, import = unpack pull prune verify
\* mark) expanded in place; every call but the last returned without error,
\* a run that ends normally called every step, a run that a step ended with
\* an exception called nothing after it, and branch mark is where the raising
\* step left it.
C10_AliasStepsInOrder ==
    LET full == C10_Expand(args_commands)
        n == Len(executed)
    IN  mpc \in {"loop", "done"} \/ (mpc = "error" /\ executed # <<>>) =>
           /\ n <= Len(full)
           /\ C10_Called = SubSeq(full, 1, n)
           /\ mpc = "loop" => C10_Called \o C10_Expand(commands) = full
           /\ \A i \in 1 .. n - 1 : executed[i].ok
           /\ mpc = "done" => n = Len(full) /\ \A i \in 1 .. n : executed[i].ok
           /\ mpc = "error" => ~executed[n].ok
           /\ \A i \in 1 .. n : \A j \in i + 1 .. n :
                 ~executed[i].ok => executed[j].mark = executed[i].mark
           /\ n > 0 => refs["mark"] = executed[n].mark

\* An export followed by a further command ran to its end and moved mark
\* to the merged HEAD.
C10_Witness ==
    /\ mpc = "done"
    /\ Len(args_commands) = 2
    /\ args_commands[1] = "export"
    /\ args_commands[2] = "update"
    /\ Len(executed) = 9
    /\ refs["mark"] = "c_origin"

\* A step of an alias raised before its mark step: mark was not called.
C10_WitnessRaised ==
    /\ mpc = "error"
    /\ args_commands = <<"import">>
    /\ Len(executed) = 4
    /\ executed[4].cmd = "verify"
    /\ refs["mark"] = "c_old"

-----------------------------------------------------------------------------
C11_Done(results) ==
    Cardinality({i \in 1 .. nItems : tpc[i] = "done" /\ tres[i] \in results})

\* Crate download and verify: every item that ended with a DownloadError,
\* MissingFileError or IntegrityError is logged and counted as bad, every
\* other finished item as good; the batch ends with success or AbortError
\* only when every item was processed, with AbortError exactly when a bad
\* item was counted and keep_going is false.
C11_DownloadVerifyLoop ==
    dl_engine = "crate" =>
        /\ dl_num_bad = C11_Done(CaughtErrors)
        /\ dl_num_good = C11_Done({"ok"})
        /\ dl_result \in {"success", "AbortError"} =>
              /\ \A i \in 1 .. nItems : tpc[i] = "done"
              /\ dl_result = "AbortError" <=> (dl_num_bad > 0 /\ ~dl_keep_going)

C11_PackLoopCounts ==
    (engine = "crate" /\ origin = "pack") =>
        /\ apc = "packed" =>
              /\ num_good_crates + num_bad_crates = Len(packList)
              /\ num_bad_crates > 0 => pack_keep_going
        /\ aerror = "AbortError" => num_bad_crates > 0 /\ ~pack_keep_going

-----------------------------------------------------------------------------
C12_StartedNotFinished == {i \in 1 .. nItems : tpc[i] \in Running}

\* C12: in every reachable state of a download or verify batch (crate
\* _process_crates, toolchain _download_verify_packages) the number of tasks
\* that were started and have not finished is at most num_jobs, and num_jobs
\* is at least 1.
C12_AtMostNumJobsTasks ==
    /\ num_jobs >= 1
    /\ dl_engine \in {"crate", "toolchain"} =>
          Cardinality(C12_StartedNotFinished) <= num_jobs

\* With one job and two packages of one spec, the second package waits for
\* the slot while the first is being transferred.
C12_Witness ==
    /\ dl_engine = "toolchain" /\ dl_command = "download"
    /\ num_jobs = 1
    /\ nItems = 2 /\ pathOf = <<1, 2>> /\ specOf = <<1, 1>>
    /\ tpc[1] = "dest_fetch"
    /\ tpc[2] = "new"
    /\ held = {1}

-----------------------------------------------------------------------------
\* C13: every limiter slot acquired for a task is released on every exit path
\* of the task (normal return, a caught error, an uncaught exception,
\* cancellation), in the crate and in the toolchain batch, so that no slot is
\* held when the batch has ended.
C13_Original ==
    /\ \A i \in 1 .. nItems : tpc[i] \in {"done", "raised", "cancelled"}
                                 => i \notin held
    /\ (dl_result # "running" /\ \A i \in 1 .. nItems : tpc[i] \notin Running)
           => held = {}

-----------------------------------------------------------------------------
\* The items for which a task was started.
C14_Processed == {i \in 1 .. nItems : tpc[i] \notin {"new", "duplicate"}}

\* C14: within one toolchain download or verify invocation, across all of its
\* specs, no two tasks are ever started for the same destination path: a
\* package is skipped exactly when a package before it had the same path,
\* and only the task of the first of them hashes or requests anything.
C14_PathProcessedOnce ==
    dl_engine = "toolchain" =>
        /\ \A i \in C14_Processed : \A j \in C14_Processed :
              pathOf[i] = pathOf[j] => i = j
        /\ \A i \in 1 .. nItems :
              tpc[i] = "duplicate" =>
                  /\ oplog[i] = <<>>
                  /\ \E j \in 1 .. i - 1 :
                        pathOf[j] = pathOf[i] /\ j \in C14_Processed
        /\ processed_paths = {pathOf[i] : i \in C14_Processed}

\* A package of a second spec has the path of a package of the first spec,
\* which was downloaded: it is skipped and the command succeeds.
C14_Witness ==
    /\ dl_engine = "toolchain" /\ dl_command = "download"
    /\ nItems = 2 /\ pathOf = <<1, 1>> /\ specOf = <<1, 2>>
    /\ tpc = <<"done", "duplicate">>
    /\ written = {1}
    /\ dl_result = "success"

\* C15: when a fetch fails (a network error, an I/O error of the HTTP
\* stream, of the copy of a local file or of the write to disk, or an HTTP
\* 4xx/5xx status), the .tmp file does not exist when the call returns and
\* the error that reaches the caller is a Download error.
C15_Original ==
    fpc \in {"failed", "raised"} =>
        /\ ~is_file(tmp_path_for(dest_path))
        /\ ferror = "DownloadError"

\* What the code guarantees: the failures that adownload_fileobj converts
\* leave no .tmp file and raise DownloadError.
C15_DownloadErrorCleansUp ==
    fpc = "failed" =>
        /\ failKind \in DownloadErrorKinds
        /\ ~is_file(tmp_path_for(dest_path))
        /\ ferror = "DownloadError"

\* C16: when a batch was aborted by a keyboard interrupt or by an
\* unrecoverable error of one task and the command has returned, no task is
\* in flight any more, no .tmp file of an aborted write is on disk, the HTTP
\* client is closed, the error is the result of the command, and the files
\* completed before the abort are on disk.
C16_Aborted ==
    /\ client_closed
    /\ dl_result \notin {"running", "success", "AbortError"}

C16_TasksCancelledClientClosed ==
    C16_Aborted =>
        /\ \A i \in 1 .. nItems : tpc[i] \notin Running
        /\ dl_result # "KeyboardInterrupt" =>
              \E i \in 1 .. nItems : tpc[i] = "raised" /\ tres[i] = dl_result
        /\ \A i \in written : dfile[i] # Absent

C16_Original ==
    /\ C16_TasksCancelledClientClosed
    /\ C16_Aborted => tmps = {}

\* C17: in adownload_verify, when the cached check does not return, the
\* .sha256 file (and the .asc file when with_sig) is requested before the
\* file itself is, and the file itself is requested only when it is absent
\* or its hash does not match the .sha256 file that was just fetched.
C17_Pos(i, op) == {k \in 1 .. Len(oplog[i]) : oplog[i][k] = op}

C17_SidecarsFirst ==
    \A i \in 1 .. nItems :
       dl_engine # "crate" =>
          /\ \A k \in C17_Pos(i, "GET dest") :
                /\ \E h \in C17_Pos(i, "GET hash") : h < k
                /\ dl_with_sig => \E g \in C17_Pos(i, "GET sig") : g < k
          /\ \A g \in C17_Pos(i, "GET sig") :
                \E h \in C17_Pos(i, "GET hash") : h < g
          /\ tpc[i] \in {"hash_fetch", "sig_fetch", "dest_fetch"} =>
                C17_Pos(i, "GET hash") # {}

C17_DestRequested(i) == tpc[i] # "dest_fetch" /\ tpc'[i] = "dest_fetch"

C17_RequestedWhenRequired ==
    \A i \in 1 .. nItems :
       C17_DestRequested(i) =>
          /\ tpc[i] \in {"hash_fetch", "sig_fetch"}
          /\ \/ dfile[i] = Absent
             \/ verify(dfile[i], dhash'[i]) = "IntegrityError"

C17_SidecarsBeforeFile ==
    /\ []C17_SidecarsFirst
    /\ [][C17_RequestedWhenRequired]_vars

\* A toolchain download with signatures finds a file that does not match its
\* fresh .sha256 file, and fetches .sha256, .asc and the file in this order.
C17_Witness ==
    /\ dl_engine = "toolchain" /\ dl_command = "download" /\ dl_with_sig
    /\ nItems = 1
    /\ oplog[1] = <<"hash", "GET hash", "GET sig", "hash", "GET dest",
                    "hash", "sig">>
    /\ tpc[1] = "done"

\* C18 (as amended): adownload_verify_hash(url, dest, expected, cached,
\* assume_ok): if cached and assume_ok and dest exists it returns success
\* without hashing and without fetching; otherwise if cached and dest's hash
\* equals expected it returns without fetching; otherwise it fetches exactly
\* once and then verifies, and a mismatch after that fetch is an Integrity
\* error with no second fetch.
C18_Called(i) == tpc[i] = "start" /\ tpc'[i] # "start"

C18_ReturnedAtOnce(i, ops) ==
    /\ tpc'[i] = "done" /\ tres'[i] = "ok"
    /\ oplog'[i] = ops
    /\ dfile'[i] = dfile[i]

C18_Fetches(i) ==
    /\ oplog'[i] \in {<<"GET dest">>, <<"hash", "GET dest">>}
    /\ tpc'[i] \in {"fetch", "cancelled"}

C18_Call(i, assumed) ==
    IF assumed
    THEN C18_ReturnedAtOnce(i, <<>>)
    ELSE IF cachedOf[i] /\ dfile[i] # Absent /\ Sha256(dfile[i]) = crate_hash
    THEN C18_ReturnedAtOnce(i, <<"hash">>)
    ELSE C18_Fetches(i)

C18_Gets(i) == {k \in 1 .. Len(oplog[i]) : oplog[i][k] = "GET dest"}

\* After the fetch: the file is hashed once and never fetched again.
C18_AfterFetch ==
    \A i \in 1 .. nItems :
       /\ Cardinality(C18_Gets(i)) <= 1
       /\ (tpc[i] = "done" /\ C18_Gets(i) # {} /\ tres[i] # "DownloadError") =>
             /\ oplog[i][Len(oplog[i])] = "hash"
             /\ Len(oplog[i]) - 1 \in C18_Gets(i)
             /\ tres[i] = (IF Sha256(dfile[i]) = crate_hash
                           THEN "ok" ELSE "IntegrityError")

C19_Ended(i) == tpc[i] \in {"done", "raised"} /\ oplog[i] # <<>>

C19_LastOp(i) == oplog[i][Len(oplog[i])]

C19_SignatureFailure ==
    \A i \in 1 .. nItems :
       (C19_Ended(i) /\ C19_LastOp(i) = "sig failed") =>
          IF warn_signature
          THEN tpc[i] = "done" /\ tres[i] = "ok"
          ELSE /\ tpc[i] = "raised" /\ tres[i] = "IntegrityError"
               /\ dl_result \notin {"running", "success"}

C19_HashMismatch ==
    \A i \in 1 .. nItems :
       ( /\ dl_engine # "crate"
         /\ C19_Ended(i) /\ C19_LastOp(i) = "hash"
         /\ dfile[i] # Absent /\ dhash[i] \in HashTexts
         /\ Sha256(dfile[i]) # dhash[i] ) =>
          tpc[i] = "raised" /\ tres[i] = "IntegrityError"

C19_SignatureDemotedHashNot == C19_SignatureFailure /\ C19_HashMismatch

\* With warn_signature, a toolchain download fetches a file whose signature
\* does not verify, and succeeds.
C19_Witness ==
    /\ dl_engine = "toolchain" /\ dl_command = "download"
    /\ dl_with_sig /\ warn_signature
    /\ nItems = 1 /\ written = {1}
    /\ C19_LastOp(1) = "sig failed"
    /\ tpc = <<"done">>
    /\ dl_result = "success"

\* C20 (as amended): for every artifact P that a toolchain or rustup
\* download or verify task has finished processing normally, other than by
\* the assume_ok shortcut, P and P.sha256 exist on disk and the digest
\* recorded in P.sha256 equals the SHA-256 of P's content.
C20_Described(i) ==
    (dfile[i] # Absent /\ dhash[i] \in HashTexts) =>
        Sha256(dfile[i]) = dhash[i]

C21_MarkReturned ==
    /\ Len(executed') = Len(executed) + 1
    /\ executed'[Len(executed')].cmd = "mark"
    /\ executed'[Len(executed')].ok

C21_MarkMovesMarkAndMaster ==
    [][C21_MarkReturned =>
          /\ \A b \in {"mark", "master"} :
                refs'[b] = IF b = head_ref THEN refs[b]
                           ELSE IF args_end = "HEAD" THEN refs[head_ref]
                           ELSE refs[args_end]
          /\ \A b \in Branches \ {"mark", "master"} : refs'[b] = refs[b]
          /\ UNCHANGED <<head_ref, config_json, head_config, config_toml,
                         index_dir>>]_vars

\* mark ran with HEAD at master: mark was moved to HEAD's commit, master was
\* left alone.
C21_Witness ==
    /\ args_commands = <<"mark">> /\ args_end = "HEAD"
    /\ mpc = "done"
    /\ head_ref = "master"
    /\ refs["mark"] = "c_head" /\ refs["master"] = "c_head"
    /\ refs["working"] = "c_old"

\* C22 (as amended): across every sequence of crate commands the engine
\* writes to these local branches of the index repository only: the branch
\* that HEAD refers to, by the merge of pull and by the config.json commits
\* of pull and config (working, once init or the upgrade of pull has made it
\* HEAD); working, when pull creates it; origin_master, by pull;
\* bundle/master, by pack; and mark and master, which mark and config move
\* only when they are not the current HEAD.
C22_Written(b) == refs'[b] # refs[b]

C22_Command == executed'[Len(executed')].cmd

C22_WritesOnlyItsBranches ==
    [][\A b \in Branches :
          C22_Written(b) =>
             /\ Len(executed') = Len(executed) + 1
             /\ \/ b = head_ref' /\ C22_Command \in {"pull", "config"}
                \/ b = "working" /\ C22_Command = "pull"
                \/ b = "origin_master" /\ C22_Command = "pull"
                \/ b = "bundle/master" /\ C22_Command = "pack"
                \/ /\ b \in {"mark", "master"} /\ b # head_ref
                   /\ C22_Command \in {"mark", "config"}]_vars

\* update ran on a repository with HEAD at working: pull wrote working and
\* origin_master, mark moved mark and master.
C22_Witness ==
    /\ args_commands = <<"update">> /\ mpc = "done"
    /\ head_ref = "working"
    /\ refs["working"] = "c_origin" /\ refs["origin_master"] = "c_origin"
    /\ refs["mark"] = "c_origin" /\ refs["master"] = "c_origin"

\* C22 as stated: working is the only branch written, apart from mark and
\* master when they are not the current HEAD.
C22_Original ==
    [][\A b \in Branches :
          C22_Written(b) =>
             \/ b = "working"
             \/ b \in {"mark", "master"} /\ b # head_ref]_vars

-----------------------------------------------------------------------------
C23_RemovedPaths ==
    {crate_rel_path(pr_removed[i], pr_style) : i \in 1 .. Len(pr_removed)}

\* Only files of removed crates are gone, only directories on the way to a
\* removed crate are gone, and what is left is still a tree.
C23_NothingElseTouched ==
    /\ pr_files0 \ C23_RemovedPaths \subseteq pr_files
    /\ pr_files \subseteq pr_files0
    /\ pr_dirs \subseteq DirsMadeFor(pr_files0)
    /\ DirsMadeFor(pr_files0) \ pr_dirs \subseteq DirsMadeFor(C23_RemovedPaths)
    /\ DirsMadeFor(pr_files) \subseteq pr_dirs
    /\ \A d \in pr_dirs : Len(d) > 1 => Front(d) \in pr_dirs

\* No directory on the way to a removed crate is left empty.
C23_EmptyParentsRemoved ==
    \A d \in DirsMadeFor(C23_RemovedPaths) :
        d \in pr_dirs => ~DirEmpty(d, pr_files, pr_dirs)

\* C23: when prune has returned, the file of every removed crate is gone,
\* every directory on the way to it that was left empty is gone too (the
\* removal stops only at a directory that is not empty), and nothing else
\* below the crates root has changed; at every moment of a prune the files
\* of the other crates and their directories are in place.
C23_Original ==
    /\ C23_NothingElseTouched
    /\ ppc = "done" =>
           /\ pr_files = pr_files0 \ C23_RemovedPaths
           /\ C23_EmptyParentsRemoved

\* What holds of every prune: the files are deleted and nothing else is
\* touched; the empty parents are all removed by a prune that was never
\* interrupted before.
C23_PruneUninterrupted ==
    /\ C23_NothingElseTouched
    /\ ppc = "done" => pr_files = pr_files0 \ C23_RemovedPaths
    /\ ppc = "done" /\ pr_runs = 1 => C23_EmptyParentsRemoved

-----------------------------------------------------------------------------
C24_PullReturned ==
    /\ Len(executed') = Len(executed) + 1
    /\ executed'[Len(executed')].cmd = "pull"
    /\ executed'[Len(executed')].ok

\* C24: when config.json was in the working tree of the index before a pull
\* that returns, then, whatever the merge or the reset to origin/master left
\* in it, config.json holds the bytes of before, in the working tree and in
\* the commit at HEAD; HEAD is branch working when it was before or when
\* there was no branch working.
C24_ConfigJsonRestored ==
    [][C24_PullReturned /\ config_json # Absent =>
           /\ config_json' = config_json
           /\ head_config' = config_json
           /\ head_ref = "working" \/ refs["working"] = Absent =>
                  head_ref' = "working"]_vars

\* A pull has returned after the reset or the merge had replaced config.json:
\* the bytes of before are back, in a commit of their own at HEAD.
C24_Witness ==
    /\ args_commands = <<"pull">>
    /\ mpc = "done"
    /\ Len(executed) = 1
    /\ executed[1].ok
    /\ head_ref = "working"
    /\ refs["working"] = "c_config"
    /\ config_json = "cfg_local"
    /\ head_config = "cfg_local"

-----------------------------------------------------------------------------
C25_TopFiles == <<tf_top, tf_top_hash, tf_top_sig>>

C25_FixupOf(date) == tf_count' = tf_count + 1 /\ tf_manifest' = date

\* C25: in every step of a sequence of toolchain fixups for one channel, the
\* date of dist/channel-rust-<channel>.toml does not decrease; the file and
\* its sidecars change only in a fixup of a manifest whose date is greater
\* than or equal to the date of the file, which then holds that manifest; a
\* fixup of an older manifest leaves the file and its sidecars as they were.
C25_AliasDateNeverDecreases ==
    [][/\ tf_top # NoManifest =>
              tf_top' # NoManifest /\ ~str_lt(tf_top', tf_top)
       /\ C25_TopFiles' # C25_TopFiles =>
              /\ C25_FixupOf(tf_top')
              /\ tf_top # NoManifest => str_ge(tf_top', tf_top)
       /\ \A date \in Dates :
              C25_FixupOf(date) /\ tf_top # NoManifest /\ str_lt(date, tf_top)
                  => UNCHANGED C25_TopFiles]_vars

\* A fixup of an older dated manifest has returned and the newer top-level
\* manifest, written by an earlier fixup, is still there.
C25_Witness ==
    /\ tf_count >= 2
    /\ tfpc = "loop"
    /\ tf_manifest \in Dates
    /\ tf_top \in Dates
    /\ str_lt(tf_manifest, tf_top)
    /\ tf_top_hash = tf_top

-----------------------------------------------------------------------------
\* X.Y.Z as three integers
C26_Triple(v) ==
    CASE v = <<"1", ".", "9", ".", "0">> -> <<1, 9, 0>>
      [] v = <<"1", ".", "1", "0", ".", "0">> -> <<1, 10, 0>>
      [] v = <<"1", ".", "1", "0", ".", "1">> -> <<1, 10, 1>>
      [] v = <<"2", ".", "0", ".", "0">> -> <<2, 0, 0>>

C26_Older(v, w) ==
    LET a == C26_Triple(v)
        b == C26_Triple(w)
    IN  \/ a[1] < b[1]
        \/ a[1] = b[1] /\ a[2] < b[2]
        \/ a[1] = b[1] /\ a[2] = b[2] /\ a[3] < b[3]

\* C26: in every step of a sequence of rustup fixups, release-stable.toml is
\* written over a recorded version only with a candidate version that is not
\* older, comparing X, Y and Z as integers, and is otherwise left alone; so
\* the recorded version never becomes an older one.
C26_StableVersionNeverDecreases ==
    [][/\ ru_stable # NoVersion =>
              ru_stable' # NoVersion /\ ~C26_Older(ru_stable', ru_stable)
       /\ ru_wrote' =>
              /\ ru_stable' = ru_version'
              /\ ru_stable # NoVersion => ~C26_Older(ru_version', ru_stable)
       /\ ~ru_wrote' => ru_stable' = ru_stable]_vars

\* 1.10.0 has replaced the recorded 1.9.0.
C26_Witness ==
    /\ ru_wrote
    /\ ru_old_version = <<"1", ".", "9", ".", "0">>
    /\ ru_version = <<"1", ".", "1", "0", ".", "0">>
    /\ ru_stable = <<"1", ".", "1", "0", ".", "0">>

-----------------------------------------------------------------------------
C27_InitCalled ==
    /\ Len(executed') = Len(executed) + 1
    /\ executed'[Len(executed')].cmd \in {"init", "init-import"}

C27_Data == <<config_toml, index_dir, head_ref, refs, config_json, head_config>>

\* C27: on a case-insensitive filesystem, a run on a crates root whose
\* config.toml selects MIXED ends with AbortError before any of its commands
\* is executed and changes nothing; and an init with prefix MIXED, where
\* neither directory existed, raises AbortError and leaves neither the
\* crates root nor the index directory behind.
C27_MixedOnCaseInsensitiveAborts ==
    [][/\ config_toml = MIXED /\ fs_case_insensitive =>
              /\ executed' = <<>>
              /\ UNCHANGED C27_Data
              /\ mpc = "init" => mpc' = "error" /\ merror' = "AbortError"
       /\ /\ C27_InitCalled
          /\ args_prefix = MIXED
          /\ fs_case_insensitive
          /\ config_toml = NoDir
          /\ ~index_dir
          => /\ ~executed'[Len(executed')].ok
             /\ merror' = "AbortError"
             /\ mpc' = "error"
             /\ config_toml' = NoDir
             /\ ~index_dir']_vars

\* The init with prefix MIXED has failed: no crates root, no index directory.
C27_Witness ==
    /\ args_prefix = MIXED
    /\ fs_case_insensitive
    /\ Len(executed) = 1
    /\ executed[1].cmd = "init"
    /\ ~executed[1].ok
    /\ merror = "AbortError"
    /\ config_toml = NoDir
    /\ ~index_dir

-----------------------------------------------------------------------------
C28_Writing == apc \in {"pack_format", "pack_bundle", "pack_crates"}

\* The members that pack writes for the crates that are on disk.
C28_AllWritten(tar_f) ==
    /\ tar_f.exists
    /\ Len(tar_f.members) = 2 + num_good_crates
    /\ num_good_crates + num_bad_crates = Len(packList)

\* While pack writes, the members go to the .tmp archive and the target
\* does not exist; the target exists after a pack only with every member.
C28_RenamedWhenComplete ==
    /\ C28_Writing => tarTmp.exists /\ ~archive.exists
    /\ apc = "packed" => C28_AllWritten(archive) /\ ~tarTmp.exists
    /\ apc = "pack_failed" => ~archive.exists

\* C28: pack writes the members to the .tmp archive and renames it onto the
\* target only when every member is written; when pack has raised or was
\* interrupted, neither the .tmp archive nor the target exists.
C28_Original ==
    /\ C28_RenamedWhenComplete
    /\ apc = "pack_failed" => ~tarTmp.exists

-----------------------------------------------------------------------------
C29_InitDefault == crates_config = init_crates_config(default_prefix_style)

C29_PackedName(c, style) ==
    crates_prefix \o crate_rel_path_from_name_version(c.name, c.version, style)

\* The archive of a finished pack: ARCHIVE_FORMAT with the given payload,
\* the bundle, then the crates that are on disk at prefixes of the style.
C29_Archive(payload, style) ==
    /\ Len(archive.members) = 2 + num_good_crates
    /\ archive.members[1] = Member(ARCHIVE_FORMAT, payload)
    /\ archive.members[2] = Member(INDEX_BUNDLE_PACKED_NAME, BundleBytes)
    /\ \A i \in 3 .. Len(archive.members) :
           \E k \in 1 .. Len(packList) :
               archive.members[i].name = C29_PackedName(packList[k], style)

\* C29: on a crates root with the config.toml that init writes by default
\* (prefix lower, archive_prefix mixed), the archive that pack writes holds
\* ARCHIVE_FORMAT with "1\n", the bundle git/crates.io-index/origin.bundle,
\* and the crates at MIXED prefixes.
C29_DefaultExportArchive ==
    C29_InitDefault /\ apc = "packed" => C29_Archive(<<"1", "\n">>, MIXED)

\* Such an archive with a crate whose MIXED prefix is not its LOWER one.
C29_Witness ==
    /\ C29_InitDefault
    /\ apc = "packed"
    /\ Len(archive.members) = 3
    /\ archive.members[3].name =
           <<"crates", "/", "3", "/", "A", "/", "A", "b", "C", "/",
             "A", "b", "C", "-", "0.1.0", ".crate">>

\* C29 as stated: ARCHIVE_FORMAT is "2\n" and the crates are at LOWER
\* prefixes.
C29_Original ==
    C29_InitDefault /\ apc = "packed" => C29_Archive(<<"2", "\n">>, LOWER)

-----------------------------------------------------------------------------
C30_Pattern(N, V) == <<N \o <<"@">> \o V>>

\* C30: when the filter is the one pattern N@V and has been asked about a
\* name and a set of versions: for the name N, name_matches holds and
\* filter_crate_versions returns V if V is among the versions and no other
\* version; for another name, name_matches does not hold and the result is
\* the empty set.
C30_FilterNameAtVersion ==
    \A N \in FilterNames, V \in FilterVersions :
        filter_strs = C30_Pattern(N, V) /\ fltpc = "done" =>
            IF flt_name = N
            THEN /\ flt_matches
                 /\ flt_selected = flt_versions \cap {V}
            ELSE /\ ~flt_matches
                 /\ flt_selected = {}

\* The filter ab@1.1 was asked about ab with 1.1 and 1.10 and selected 1.1.
C30_Witness ==
    /\ fltpc = "done"
    /\ filter_strs = C30_Pattern(<<"a", "b">>, <<"1", ".", "1">>)
    /\ flt_name = <<"a", "b">>
    /\ flt_versions = {<<"1", ".", "1">>, <<"1", ".", "1", "0">>}
    /\ flt_selected = {<<"1", ".", "1">>}
    /\ flt_matches

-----------------------------------------------------------------------------
\* The MIXED prefix as the specification words it.
C31_Mixed(N) ==
    IF Len(N) = 1 THEN <<"1">>
    ELSE IF Len(N) = 2 THEN <<"2">>
    ELSE IF Len(N) = 3 THEN <<"3", "/", N[1]>>
    ELSE <<N[1], N[2], "/", N[3], N[4]>>

\* C31: for every crate name N, the prefix of N with style MIXED is 1, 2,
\* 3/<c0> or <c0c1>/<c2c3> by the length of N, and the prefix with style
\* LOWER is the lowercasing of the MIXED one.
C31_LowerIsLowercasedMixed ==
    callpc = "done" /\ "name" \in DOMAIN call_args =>
        /\ call_result.mixed = C31_Mixed(call_args.name)
        /\ call_result.lower = LowerStr(call_result.mixed)

\* AbCd: Ab/Cd and ab/cd (in the letters of the model, aBcD).
C31_Witness ==
    /\ callpc = "done"
    /\ call_args = [name |-> <<"a", "B", "c", "D">>]
    /\ call_result.mixed = <<"a", "B", "/", "c", "D">>
    /\ call_result.lower = <<"a", "b", "/", "c", "d">>

\* C32: for every 64-character hex digest d and every path p whose last
\* component holds no line break, reading back the sidecar written for
\* (p, d) gives (d, basename(p)); the parser accepts the two-space and the
\* space-asterisk delimiter and rejects a hash of 63 or 65 characters, a
\* hash with a non-hex character and a single space before the name.
C32_PlainName(name) ==
    /\ \A i \in 1..Len(name) : name[i] \notin {"\n", "\r"}
    /\ name = <<>> \/ name[1] \notin {" ", "*"}
C32_RoundTrip ==
    (callpc = "done" /\ "op" \in DOMAIN call_args /\ call_args.op = "write_read"
        /\ \A i \in 1..Len(call_args.name) : call_args.name[i] \notin {"\n", "\r"})
    => call_result = Parsed(call_args.hash, call_args.name)
C32_Parser ==
    (callpc = "done" /\ "op" \in DOMAIN call_args /\ call_args.op = "parse"
        /\ C32_PlainName(call_args.name))
    => IF call_args.hash \in Digests /\ call_args.delim \in {<<" ", " ">>, <<" ", "*">>}
       THEN call_result = Parsed(call_args.hash, call_args.name)
       ELSE call_result = ParseError
C32_SidecarRoundTripAndParser == C32_RoundTrip /\ C32_Parser
C32_Witness ==
    /\ callpc = "done"
    /\ "op" \in DOMAIN call_args
    /\ call_args.op = "write_read"
    /\ call_args.name = <<"n", ".">>
    /\ call_result = Parsed(Rep("a", HashLen - 1) \o <<"F">>, <<"n", ".">>)
\* C32 as stated: the round trip for every path.
C32_Original ==
    (callpc = "done" /\ "op" \in DOMAIN call_args /\ call_args.op = "write_read")
    => call_result = Parsed(call_args.hash, call_args.name)

\* C33: verify_hash fails with MissingFileError when the file is absent,
\* with IntegrityError when its digest differs from the expected one, and
\* succeeds otherwise; verify fails with MissingFileError when the sidecar
\* is absent and with an exception of the error.Error hierarchy when the
\* sidecar's content is not in the sidecar format.
C33_VerifyHash ==
    (callpc = "done" /\ "op" \in DOMAIN call_args /\ call_args.op = "verify_hash")
    => call_result.error =
          IF call_args.content = Absent THEN "MissingFileError"
          ELSE IF hash_file(call_args.content) # call_args.expected
               THEN "IntegrityError"
          ELSE "ok"
C33_SidecarAbsent ==
    (callpc = "done" /\ "op" \in DOMAIN call_args /\ call_args.op = "verify"
        /\ call_args.sidecar = NoSidecar)
    => call_result.error = "MissingFileError"
C33_Malformed ==
    /\ callpc = "done"
    /\ "op" \in DOMAIN call_args
    /\ call_args.op = "verify"
    /\ call_args.sidecar # NoSidecar
    /\ ~parse_hash_text(call_args.sidecar).ok
C33_Original ==
    /\ C33_VerifyHash
    /\ C33_SidecarAbsent
    /\ C33_Malformed => call_result.error \in ErrorHierarchy
C33_HoldsExceptBadHash == C33_VerifyHash /\ C33_SidecarAbsent

\* C34: available_target_types includes a target only if every available
\* package of the target is present or some present package of the target
\* has a rel_path that no other target shares, and an included target is
\* native-target when a rustc package of it is present, else cross-target
\* when a rust-std package of it is present, else minimal.
C34_Available(t) ==
    {p \in Packages : p.target = t /\ call_args.manifest[p].available}
C34_Present(p) == call_args.manifest[p].rel_path \in call_args.present
C34_Shared(p) ==
    \E q \in Packages :
        /\ q.target # p.target
        /\ call_args.manifest[q].available
        /\ call_args.manifest[q].rel_path = call_args.manifest[p].rel_path
C34_Type(t) ==
    IF \E p \in C34_Available(t) : p.name = "rustc" /\ C34_Present(p)
    THEN "native-target"
    ELSE IF \E p \in C34_Available(t) : p.name = "rust-std" /\ C34_Present(p)
    THEN "cross-target"
    ELSE "minimal"
C34_TargetTypes ==
    (callpc = "done" /\ "manifest" \in DOMAIN call_args)
    => \A t \in DOMAIN call_result.types :
          /\ \/ \A p \in C34_Available(t) : C34_Present(p)
             \/ \E p \in C34_Available(t) : C34_Present(p) /\ ~C34_Shared(p)
          /\ call_result.types[t] = C34_Type(t)
\* t1 is included for its unshared present rust-std although its rustc is
\* missing; t2 has only a shared present file and a missing one, and is left out.
C34_Witness ==
    /\ callpc = "done"
    /\ "manifest" \in DOMAIN call_args
    /\ call_args.present = {"r1"}
    /\ call_args.manifest[[name |-> "rustc", target |-> "t1"]].rel_path = "r2"
    /\ call_args.manifest[[name |-> "rust-std", target |-> "t1"]].rel_path = "r1"
    /\ C34_Available("t2") # {}
    /\ call_result.types = [t \in {"t1"} |-> "cross-target"]

\* C35: the process exit code is 0 on success, 1 when an exception of the
\* error.Error hierarchy ends the run, and non-zero when a
\* KeyboardInterrupt ends the run.
C35_Ran ==
    /\ callpc = "done"
    /\ "cmd" \in DOMAIN call_args
    /\ ~call_args.readme
    /\ call_args.cmd # "None"
C35_SuccessAndErrors ==
    C35_Ran =>
        /\ call_args.outcome = "ok" => call_result.exit_code = 0
        /\ call_args.outcome \in ErrorHierarchy => call_result.exit_code = 1
C35_Original ==
    /\ C35_SuccessAndErrors
    /\ (C35_Ran /\ call_args.outcome = "KeyboardInterrupt")
          => call_result.exit_code # 0

\* C36: unpack writes no file outside its destination roots: a crate member
\* is written under the crates root, a toolchain or rustup member under
\* the destination directory and the bundle at the bundle path, whatever
\* the member's name.
C36_Wrote ==
    /\ callpc = "done"
    /\ "member" \in DOMAIN call_args
    /\ call_result.wrote
C36_Original ==
    C36_Wrote =>
        IF call_args.member = INDEX_BUNDLE_PACKED_NAME /\ call_args.engine = "crate"
        THEN call_result.at = BundleLocation
        ELSE Under(call_result.at, DestRoot(call_args.engine))
\* What holds: with tarfile.data_filter a crate member stays under the
\* crates root and a toolchain or rustup member under the working directory.
C36_Filtered ==
    (C36_Wrote /\ call_args.data_filter) =>
        IF call_args.member = INDEX_BUNDLE_PACKED_NAME /\ call_args.engine = "crate"
        THEN call_result.at = BundleLocation
        ELSE IF call_args.engine = "crate"
        THEN Under(call_result.at, DestRoot("crate"))
        ELSE Under(call_result.at, Cwd)

\* C37: whenever the mark step of `export` moves branch mark from a commit
\* S to a different commit E, the pack step of that export has written an
\* archive with the bundle of S..E and the crates added in S..E, also when
\* the range adds no crate.
C37_ExportMovesMark ==
    /\ args_commands = <<"export">>
    /\ mpc = "loop"
    /\ commands # <<>>
    /\ Head(commands) = "mark"
    /\ refs["mark"] # Absent
    /\ refs'["mark"] # refs["mark"]
C37_Archived(S, E) ==
    \E i \in 1 .. Len(executed) :
        /\ executed[i].cmd = "pack"
        /\ "wrote" \in DOMAIN executed[i]
        /\ executed[i].wrote
        /\ executed[i].start = S
        /\ executed[i].end = E
C37_Original ==
    [][C37_ExportMovesMark => C37_Archived(refs["mark"], refs'["mark"])]_vars
\* What holds: the archive was written when the range has crates.
C37_HadCrates ==
    \E i \in 1 .. Len(executed) :
        /\ executed[i].cmd = "pack"
        /\ "has_crates" \in DOMAIN executed[i]
        /\ executed[i].has_crates
C37_ArchivedWhenCrates ==
    [][(C37_ExportMovesMark /\ C37_HadCrates)
          => C37_Archived(refs["mark"], refs'["mark"])]_vars

\* C38: in `update` or `export` with keep_going set, a download step in
\* which some crates fail returns, and the mark step that follows still
\* moves mark to END; with keep_going unset the same failures end the run
\* and mark stays where it was.
C38_Alias == args_commands \in {<<"update">>, <<"export">>}
C38_BadDownload(i) ==
    /\ executed[i].cmd = "download"
    /\ "bad" \in DOMAIN executed[i]
    /\ executed[i].bad
C38_SomeBad == \E i \in 1 .. Len(executed) : C38_BadDownload(i)
C38_MarkStep ==
    /\ mpc = "loop"
    /\ commands # <<>>
    /\ Head(commands) = "mark"
    /\ head_ref # "mark"
    /\ end_valid
    /\ end_commit(refs, head_ref, args_end) # Absent
C38_KeepGoingMarkAdvances ==
    /\ [](C38_Alias =>
            \A i \in 1 .. Len(executed) :
                C38_BadDownload(i) =>
                    IF args_keep_going
                    THEN executed[i].ok
                    ELSE /\ mpc = "error"
                         /\ i = Len(executed)
                         /\ refs["mark"] = executed[i].mark)
    /\ [][(C38_Alias /\ args_keep_going /\ C38_SomeBad /\ C38_MarkStep)
            => refs'["mark"] = end_commit(refs, head_ref, args_end)]_vars
C38_Witness ==
    /\ args_commands = <<"export">>
    /\ args_keep_going
    /\ mpc = "done"
    /\ C38_SomeBad
    /\ executed[Len(executed)].cmd = "mark"
    /\ executed[Len(executed)].ok
    /\ executed[Len(executed)].mark = "c_origin"
    /\ \E i \in 1 .. Len(executed) :
          C38_BadDownload(i) /\ executed[i].mark = "c_old"

\* The parts of a pattern <name_glob>[@<version_glob>], a missing part
\* meaning "*".
C39_At(pat) ==
    IF \E i \in 1 .. Len(pat) : pat[i] = "@"
    THEN CHOOSE i \in 1 .. Len(pat) :
             pat[i] = "@" /\ \A j \in 1 .. i - 1 : pat[j] # "@"
    ELSE Len(pat) + 1
C39_NameGlob(pat) ==
    IF C39_At(pat) = 1 THEN <<"*">> ELSE SubSeq(pat, 1, C39_At(pat) - 1)
C39_VersionGlob(pat) ==
    IF C39_At(pat) >= Len(pat) THEN <<"*">>
    ELSE SubSeq(pat, C39_At(pat) + 1, Len(pat))
C39_Selects(pat, name, version) ==
    /\ fnmatchcase(name, C39_NameGlob(pat))
    /\ fnmatchcase(version, C39_VersionGlob(pat))

\* C39: for every sequence of added patterns, every crate name and every
\* set of versions, filter_crate_versions returns the versions of the set
\* that some added pattern selects for the name -- a subset of the set that
\* depends on the patterns only as a set, not on their order -- and all of
\* the set when no pattern was added.
C39_UnionOfPatterns ==
    fltpc = "done" =>
        /\ flt_selected \subseteq flt_versions
        /\ flt_selected =
              IF filter_strs = <<>> THEN flt_versions
              ELSE {v \in flt_versions :
                       \E i \in 1 .. Len(filter_strs) :
                           C39_Selects(filter_strs[i], flt_name, v)}
\* ab@1.0, then a*@1.?, then ab@1.1*: of 1.0, 1.1 and 1.10 for ab all
\* three are selected, each by a different pattern.
C39_Witness ==
    /\ fltpc = "done"
    /\ filter_strs = << <<"a", "b", "@", "1", ".", "0">>,
                        <<"a", "*", "@", "1", ".", "?">>,
                        <<"a", "b", "@", "1", ".", "1", "*">> >>
    /\ flt_name = <<"a", "b">>
    /\ flt_versions = FilterVersions
    /\ flt_selected = FilterVersions

\* C40: whenever a command of a crate run reads the cached crate lists,
\* they are the lists of the current START..END commits.
C40_Reads ==
    /\ mpc = "loop"
    /\ commands # <<>>
    /\ Head(commands) \in {"prune", "download", "verify", "list", "pack"}
    /\ crates_cache # NoCache
C40_CurrentUnlessBundleBranch ==
    (C40_Reads /\ (main_start = "mark" \/ args_end = "master"))
    => crates_cache = range_commits(refs, head_ref)

=====
